---- MODULE Spec2Model ----
(***************************************************************************)
(* Multi-part posting pipeline of ArcHive (HivePostingPipeline) and the    *)
(* browser persistence it writes to (localStorage, IndexedDB).             *)
(*                                                                         *)
(* One action is one turn of the JavaScript event loop: from the point     *)
(* where a timer, the transport promise or an operator call resumes code   *)
(* until every continuation that can run without a new timer or network   *)
(* event has run.  The pipeline is therefore only ever observed at its     *)
(* suspension points: the pause poll, the transport call, the backoff      *)
(* sleep and the cooldown sleep.                                           *)
(***************************************************************************)
EXTENDS Integers, Sequences, FiniteSets, TLC

\* ---------------------------------------------------------------- bounds
MaxParts == 3
MaxRuns == 2
MaxQueue == 3
MaxOps == 2
MaxFailures == 3
MaxRetryFailures == 6
MaxLen == 4
MaxVerify == 2
MaxEntries == 2
MaxSearches == 3
MaxOpen == 2
MaxStates == 2
MaxSegments == 3

\* ------------------------------------------------------ program constants
maxAttempts == 3
backoffDelays == <<1000, 3000, 9000>>
cooldownSeconds == 20
cooldownTickMs == 1000
pausePollMs == 500
SAFE_CHUNK_SIZE_BYTES == 59392
METADATA_OVERHEAD_BYTES == 2048
minChunkSizeBytes == 10240
maxPartCount == 100

CooldownMs == cooldownSeconds * cooldownTickMs

NullLink == 0
Author == "author"
NullAuthor == "null"

\* ------------------------------------------------------------- variables
VARIABLES
    total_parts,    \* manifest.total_parts
    parts,          \* manifest.parts: part number -> PartRecord
    root_permlink,  \* manifest.root_permlink
    currentPart,    \* this.currentPart
    attempts,       \* this.attempts (0 stands for an absent or zero entry)
    cancelled,      \* this.cancelled
    paused,         \* this.paused
    errors,         \* this.errors
    rootPermlink,   \* this.rootPermlink
    pc,             \* suspension point of start(): idle, pausePoll, transport, backoff, cooldown
    attempt,        \* loop variable of _postPartWithRetry
    remaining,      \* remainingSeconds of the cooldown loop
    result,         \* value start() returned last
    returned,       \* start() returned in the step that led here
    ls,             \* localStorage entry of the series: <<>> or <<state>>
    idbOn,          \* window.ArcHiveStorage is present
    idbState,       \* pipeline_state store entry of the series: <<>> or <<state>>
    idbParts,       \* content_parts store holds the parts of the series
    idbQueue,       \* requested, not yet executed operations on pipeline_state
    idbPartsQueue,  \* requested, not yet executed operations on content_parts
    timed,          \* the observer's clock (sincePublish) is running
    ledger,         \* part numbers the transport has published, in order
    sincePublish,   \* ms since the last publish of a non-final part, capped at CooldownMs
    invokeGap,      \* sincePublish at the latest transport invocation
    runs,           \* number of start() calls
    ops,            \* number of pause(), resume() and cancel() calls
    lastNote,       \* latest progress notification
    runPhases,      \* <<phase, part>> of the notifications of the current run
    toldPosted,     \* parts some notification has shown as posted
    runStartPosted, \* parts posted when the current run started
    runStartPart,   \* currentPart when the current run started
    cancelAt,       \* suspension point at which cancel() took effect in this run
    cancelPart,     \* currentPart when that cancel() was called
    runCalls,       \* transport invocations per part in the current run
    runBackoffs,    \* backoff sleeps per part in the current run
    runDelays,      \* the delays of those sleeps, in order (ms)
    runLedger,      \* parts published by the current run, in order
    runStartErrors, \* length of the error log when the current run started
    inFlight,       \* parts whose transport call has not settled
    lastCall,       \* part and attempt of the latest transport invocation of the run
    lastError,      \* how that invocation settled: none (not yet), ok, or the error
    contentParts,   \* this.contentParts: the array given to the constructor
    payload,        \* the payload of the transport call that has not settled
    twin,           \* second pipeline instance of the series: <<>> or <<its state>>
    verifier,       \* verifyCompletedParts: its arguments, loop index and results
    stripper,       \* stripManifestComment: its argument and result
    splitter,       \* splitContentIntoParts: its argument and result
    validator,      \* validateManifest / updateManifestWithPost: a call and its outcome
    hasher,         \* hashMultiPartContent / verifyMultiPartContent: a round trip
    search,         \* the search state of the lookup module and its requests
    store           \* the pipeline states in IndexedDB and the cleanup

vars == <<total_parts, parts, root_permlink, currentPart, attempts, cancelled,
          paused, errors, rootPermlink, pc, attempt, remaining, result,
          returned, ls, idbOn, idbState, idbParts, idbQueue, idbPartsQueue,
          timed, ledger, sincePublish, invokeGap, runs, ops, lastNote, runPhases,
          toldPosted, runStartPosted, runStartPart, cancelAt, cancelPart,
          runCalls, runBackoffs, runDelays, runLedger, runStartErrors, inFlight,
          lastCall, lastError, contentParts, payload, twin, verifier, stripper, splitter, validator, hasher, search, store>>

\* The state as one record, so that the code's sequential steps compose.
Cur ==
    [total_parts |-> total_parts, parts |-> parts, root_permlink |-> root_permlink,
     currentPart |-> currentPart, attempts |-> attempts, cancelled |-> cancelled,
     paused |-> paused, errors |-> errors, rootPermlink |-> rootPermlink,
     pc |-> pc, attempt |-> attempt, remaining |-> remaining, result |-> result,
     returned |-> returned, ls |-> ls, idbOn |-> idbOn, idbState |-> idbState,
     idbParts |-> idbParts, idbQueue |-> idbQueue, idbPartsQueue |-> idbPartsQueue,
     timed |-> timed, ledger |-> ledger, sincePublish |-> sincePublish, invokeGap |-> invokeGap,
     runs |-> runs, ops |-> ops, lastNote |-> lastNote, runPhases |-> runPhases,
     toldPosted |-> toldPosted, runStartPosted |-> runStartPosted,
     runStartPart |-> runStartPart, cancelAt |-> cancelAt, cancelPart |-> cancelPart,
     runCalls |-> runCalls, runBackoffs |-> runBackoffs, runDelays |-> runDelays, runLedger |-> runLedger,
     runStartErrors |-> runStartErrors, inFlight |-> inFlight,
     lastCall |-> lastCall, lastError |-> lastError,
     contentParts |-> contentParts, payload |-> payload]

\* ------------------------------------------------------- error taxonomy
\* An error is known by the classifier substrings its lower-cased message
\* (and toString()) contains.
ErrorText(e) ==
    CASE e = "unauthorized"   -> {"auth", "unauthorized"}
      [] e = "timeout"        -> {"timeout"}
      [] e = "aborted"        -> {"abort"}
      [] e = "invalid_result" -> {"invalid"}
      [] e = "no_root"        -> {}
      [] OTHER                -> {}

TransportErrors == {"unauthorized", "timeout", "aborted"}
Outcomes == {"ok", "nolink"} \cup TransportErrors

classifyErrorRetryAll(e) ==
    IF "cancel" \in ErrorText(e) \/ "abort" \in ErrorText(e)
    THEN "cancelled"
    ELSE "transient"

\* classifyError(error), lines 1964-2003.
classifyError(e) ==
    LET errorMessage == ErrorText(e)
        errorString == ErrorText(e)
    IN  IF \/ "auth" \in errorMessage
           \/ "permission" \in errorMessage
           \/ "unauthorized" \in errorMessage
           \/ "invalid key" \in errorMessage
           \/ "posting key" \in errorMessage
        THEN "permanent"
        ELSE IF \/ "validation" \in errorMessage
                \/ "invalid" \in errorMessage
                \/ "missing required" \in errorMessage
                \/ "assert" \in errorString
        THEN "permanent"
        ELSE IF \/ "cancel" \in errorMessage
                \/ "abort" \in errorMessage
        THEN "cancelled"
        ELSE IF \/ "network" \in errorMessage
                \/ "timeout" \in errorMessage
                \/ "fetch" \in errorMessage
                \/ "connection" \in errorMessage
                \/ "rate limit" \in errorMessage
                \/ "networkerror" \in errorString
        THEN "transient"
        ELSE "transient"

\* ------------------------------------------------------------ manifest
PostedParts(ps) == {i \in DOMAIN ps : ps[i].status = "posted"}

PendingRecord == [status |-> "pending", permlink |-> NullLink, author |-> NullAuthor]

updateManifestWithPostNoAuthor(ps, partNumber, permlink) ==
    [ps EXCEPT ![partNumber] =
        [status |-> "posted", permlink |-> permlink, author |-> NullAuthor]]

updateManifestWithPost(ps, partNumber, permlink) ==
    [ps EXCEPT ![partNumber] =
        [status |-> "posted", permlink |-> permlink, author |-> Author]]

\* "BUG FIX 1" loop: every part 1..partNumber is given status posted.
MarkPriorPosted(ps, partNumber) ==
    [i \in DOMAIN ps |->
        IF i <= partNumber /\ ps[i].status # "posted"
        THEN [ps[i] EXCEPT !.status = "posted"]
        ELSE ps[i]]

\* ------------------------------------------------ observer, persistence
_fireProgressCallback(s, phase, partNumber, att) ==
    [s EXCEPT !.lastNote = [phase |-> phase, partNumber |-> partNumber, attempt |-> att],
              !.runPhases = @ \cup {<<phase, partNumber>>},
              !.toldPosted = @ \cup PostedParts(s.parts)]

_getStatus(s) ==
    IF s.cancelled THEN "cancelled"
    ELSE IF s.paused THEN "paused"
    ELSE IF s.currentPart > s.total_parts THEN "completed"
    ELSE IF \E f \in DOMAIN s.parts :
              /\ s.parts[f].status = "failed"
              /\ \A g \in DOMAIN s.parts : s.parts[g].status = "failed" => f <= g
              /\ s.currentPart > f
         THEN "failed"
    ELSE "in_progress"

StateOf(s) ==
    [manifest |-> [parts |-> s.parts, root_permlink |-> s.root_permlink],
     currentPart |-> s.currentPart,
     attempts |-> s.attempts,
     cancelled |-> s.cancelled,
     paused |-> s.paused,
     errors |-> s.errors,
     rootPermlink |-> s.rootPermlink,
     status |-> _getStatus(s)]

\* localStorage.setItem serialises at once; the IndexedDB put is requested
\* and clones the state object when the current turn's code has run (Seal).
_saveState(s) ==
    [s EXCEPT !.ls = <<StateOf(s)>>,
              !.idbQueue = IF s.idbOn
                           THEN Append(@, [op |-> "put", state |-> StateOf(s), live |-> TRUE])
                           ELSE @]

_clearState(s) ==
    [s EXCEPT !.ls = <<>>,
              !.idbQueue = IF s.idbOn
                           THEN Append(@, [op |-> "deletePipelineState", state |-> StateOf(s), live |-> FALSE])
                           ELSE @]

\* The state object handed to savePipelineState refers to this.manifest,
\* this.attempts and this.errors; store.put clones them after await getDB().
Seal(s) ==
    [s EXCEPT !.idbQueue =
        [i \in DOMAIN s.idbQueue |->
            IF s.idbQueue[i].live
            THEN [s.idbQueue[i] EXCEPT
                    !.live = FALSE,
                    !.state = [@ EXCEPT
                        !.manifest = [parts |-> s.parts, root_permlink |-> s.root_permlink],
                        !.attempts = s.attempts,
                        !.errors = s.errors]]
            ELSE s.idbQueue[i]]]

Commit(r) ==
    LET s == Seal(r) IN
    /\ total_parts' = s.total_parts
    /\ parts' = s.parts
    /\ root_permlink' = s.root_permlink
    /\ currentPart' = s.currentPart
    /\ attempts' = s.attempts
    /\ cancelled' = s.cancelled
    /\ paused' = s.paused
    /\ errors' = s.errors
    /\ rootPermlink' = s.rootPermlink
    /\ pc' = s.pc
    /\ attempt' = s.attempt
    /\ remaining' = s.remaining
    /\ result' = s.result
    /\ returned' = s.returned
    /\ ls' = s.ls
    /\ idbOn' = s.idbOn
    /\ idbState' = s.idbState
    /\ idbParts' = s.idbParts
    /\ idbQueue' = s.idbQueue
    /\ idbPartsQueue' = s.idbPartsQueue
    /\ timed' = s.timed
    /\ ledger' = s.ledger
    /\ sincePublish' = s.sincePublish
    /\ invokeGap' = s.invokeGap
    /\ runs' = s.runs
    /\ ops' = s.ops
    /\ lastNote' = s.lastNote
    /\ runPhases' = s.runPhases
    /\ toldPosted' = s.toldPosted
    /\ runStartPosted' = s.runStartPosted
    /\ runStartPart' = s.runStartPart
    /\ cancelAt' = s.cancelAt
    /\ cancelPart' = s.cancelPart
    /\ runCalls' = s.runCalls
    /\ runBackoffs' = s.runBackoffs
    /\ runDelays' = s.runDelays
    /\ runLedger' = s.runLedger
    /\ runStartErrors' = s.runStartErrors
    /\ inFlight' = s.inFlight
    /\ lastCall' = s.lastCall
    /\ lastError' = s.lastError
    /\ contentParts' = s.contentParts
    /\ payload' = s.payload
    /\ UNCHANGED <<twin, verifier, stripper, splitter, validator, hasher, search, store>>

Min(a, b) == IF a < b THEN a ELSE b

sleep(s, ms) ==
    IF s.timed THEN [s EXCEPT !.sincePublish = Min(CooldownMs, @ + ms)] ELSE s

Return(s, res) ==
    [s EXCEPT !.pc = "idle", !.result = res, !.returned = TRUE]

\* ------------------------------------------------------------- start()
\* start(), lines 2192-2213: _postPartWithRetry returned success: false.
PartFailed(s) ==
    LET s1 == _fireProgressCallback(s, "failed", s.currentPart, s.attempts[s.currentPart])
        s2 == _saveState(s1)
    IN  Return(s2, [success |-> FALSE, reason |-> "part_failed"])

\* start(), lines 2164-2182 and 2257-2275: the cancelled flag is seen.
ReportCancelled(s) ==
    LET s1 == _fireProgressCallback(s, "cancelled", s.currentPart, s.attempts[s.currentPart])
        s2 == _saveState(s1)
    IN  Return(s2, [success |-> FALSE, reason |-> "cancelled"])

\* start(), lines 2281-2300: the loop ended.
ReportSuccess(s) ==
    LET s1 == _fireProgressCallback(s, "success", s.total_parts, 0)
        s2 == _clearState(s1)
    IN  Return(s2, [success |-> TRUE, reason |-> "success"])

markAsPausedNoFlag(s) == _saveState(s)

\* markAsPaused(), lines 2725-2729.
markAsPaused(s) == _saveState([s EXCEPT !.paused = TRUE])

backoffDelayFlat(att) == backoffDelays[1]

\* _postPartWithRetry, line 2517: backoffDelays[attempt - 1], or the last one.
backoffDelay(att) ==
    IF att - 1 < Len(backoffDelays) THEN backoffDelays[att] ELSE backoffDelays[Len(backoffDelays)]

\* _postPartWithRetry, catch block, lines 2484-2547.
CatchError(s, e) ==
    LET partNumber == s.currentPart
        s1 == [s EXCEPT !.errors = Append(@, [partNumber |-> partNumber,
                                               attempt |-> s.attempt,
                                               error |-> e]),
                        !.lastError = e]
        errorType == classifyError(e)
    IN  IF errorType = "permanent" THEN PartFailed(s1)
        ELSE IF errorType = "cancelled" \/ s1.cancelled THEN PartFailed(s1)
        ELSE IF s1.attempt < maxAttempts THEN [s1 EXCEPT !.pc = "backoff"]
        ELSE LET s2 == markAsPaused(s1)
                 s3 == _fireProgressCallback(s2, "paused", partNumber, s2.attempt)
             IN  PartFailed(s3)

\* A string is a sequence of characters.  "x" and "y" are ordinary
\* characters, "j" a character of the compact manifest JSON, NL a newline;
\* OPEN and CLOSE stand for the character groups "<!--ARCHIVE-MANIFEST:"
\* and "-->", which ordinary characters never form.
NL == "NL"
OPEN == "OPEN"
CLOSE == "CLOSE"

\* The content of part i of the series.
PartContent(i) == [k \in 1..i |-> "x"]

\* The text a template literal gives for the value undefined.
UndefinedText == <<"undefined">>

\* An element of contentParts: a part object of splitContentIntoParts
\* (lines 1047-1052, 1077-1082), or the content as a plain string.
PartObject(i) == [object |-> TRUE, content |-> PartContent(i)]
PartString(i) == [object |-> FALSE, content |-> PartContent(i)]

\* _postPartWithRetry, line 2385: part.content, which is undefined when
\* the part is a string.
contentOf(part) == IF part.object THEN part.content ELSE UndefinedText

\* compactManifestForPost, lines 1566-1585: a JSON text.
compactManifestForPost == <<"j", "j">>

\* _generatePostPayload, line 2574:
\* `${content}\n\n<!--ARCHIVE-MANIFEST:${compactManifest}-->`.
bodyWithManifest(content, compactManifest) ==
    content \o <<NL, NL, OPEN>> \o compactManifest \o <<CLOSE>>

\* parent_permlink of a root post: manifest.tags[0] or 'archive' (line 2601).
RootParent == -2
NoPayload == <<>>

parentOfPartOne(s, partNumber) == [author |-> "", permlink |-> RootParent]

\* _generatePostPayload, lines 2596-2610: the parent of the post.
parentOf(s, partNumber) ==
    IF partNumber = 1
    THEN [author |-> "", permlink |-> RootParent]
    ELSE [author |-> Author, permlink |-> s.rootPermlink]

\* _generatePostPayload, lines 2565-2622.
_generatePostPayload(s, partNumber, content) ==
    <<[parent_author |-> parentOf(s, partNumber).author,
       parent_permlink |-> parentOf(s, partNumber).permlink,
       body |-> bodyWithManifest(content, compactManifestForPost)]>>

\* _generatePostPayload, lines 2606-2609: parts 2+ need the root permlink.
PayloadThrows(s, partNumber) == partNumber # 1 /\ s.rootPermlink = NullLink

\* _postPartWithRetry, one iteration of the attempt loop up to the transport
\* call, lines 2394-2426.
Attempt(s, att) ==
    LET partNumber == s.currentPart IN
    IF s.cancelled THEN PartFailed(s)
    ELSE LET s1 == [s EXCEPT !.attempts[partNumber] = att, !.attempt = att]
             s2 == _fireProgressCallback(s1, IF att > 1 THEN "retrying" ELSE "posting",
                                         partNumber, att)
         IN  IF PayloadThrows(s2, partNumber) THEN CatchError(s2, "no_root")
             ELSE [s2 EXCEPT !.pc = "transport",
                             !.payload = _generatePostPayload(s2, partNumber,
                                             contentOf(s2.contentParts[partNumber])),
                             !.inFlight = @ \cup {partNumber},
                             !.runCalls[partNumber] = @ + 1,
                             !.lastCall = [partNumber |-> partNumber, attempt |-> att],
                             !.lastError = "none",
                             !.invokeGap = s2.sincePublish]

_postPartWithRetry(s) == Attempt(s, 1)

\* start(), head of the while loop, lines 2162-2190, and its exit.
LoopTop(s) ==
    IF s.currentPart > s.total_parts THEN ReportSuccess(s)
    ELSE IF s.cancelled THEN ReportCancelled(s)
    ELSE IF s.paused /\ ~s.cancelled THEN [s EXCEPT !.pc = "pausePoll"]
    ELSE _postPartWithRetry(s)

NextPartSkip(s) == s.currentPart + 2

\* start(), line 2277: this.currentPart++.
NextPart(s) == s.currentPart + 1

\* start(), lines 2256-2279: after the cooldown.
AfterCooldown(s) ==
    IF s.cancelled THEN ReportCancelled(s)
    ELSE LoopTop(_saveState([s EXCEPT !.currentPart = NextPart(s)]))

\* start(), lines 2221-2244: the cooldown begins unless the part was the last.
BeginCooldown(s) ==
    IF s.currentPart # s.total_parts
    THEN LET s1 == [s EXCEPT !.remaining = cooldownSeconds]
             s2 == _fireProgressCallback(s1, "cooldown", s1.currentPart, 0)
         IN  [s2 EXCEPT !.pc = "cooldown"]
    ELSE AfterCooldown(s)

\* _postPartWithRetry, lines 2433-2482: the transport returned a permlink.
RecordPosted(s, permlink) ==
    LET partNumber == s.currentPart
        ps1 == updateManifestWithPost(s.parts, partNumber, permlink)
        ps2 == MarkPriorPosted(ps1, partNumber)
        s1 == [s EXCEPT !.parts = ps2,
                        !.rootPermlink = IF partNumber = 1 THEN permlink ELSE @,
                        !.root_permlink = IF partNumber = 1 THEN permlink ELSE @,
                        !.attempts[partNumber] = 0,
                        !.lastError = "ok"]
    IN  _fireProgressCallback(s1, "posting", partNumber, s.attempt)

\* The ledger side of a successful publish: a new entry, a new locator.
Settle(s) == [s EXCEPT !.inFlight = @ \ {s.currentPart}, !.payload = NoPayload]

Publish(s) ==
    [s EXCEPT !.ledger = Append(@, s.currentPart),
              !.runLedger = Append(@, s.currentPart),
              !.sincePublish = IF s.timed /\ s.currentPart # s.total_parts
                               THEN 0 ELSE CooldownMs]

QueueRoom(n) == Len(idbQueue) + n <= MaxQueue

\* start(), lines 2142-2162, up to its first suspension.
start(s) ==
    LET s1 == [s EXCEPT !.cancelled = FALSE, !.paused = FALSE,
                        !.runs = @ + 1,
                        !.result = [success |-> FALSE, reason |-> "none"],
                        !.returned = FALSE,
                        !.runPhases = {},
                        !.runStartPosted = PostedParts(s.parts),
                        !.runStartPart = s.currentPart,
                        !.cancelAt = "none", !.cancelPart = 0,
                        !.runCalls = [i \in 1..s.total_parts |-> 0],
                        !.runBackoffs = [i \in 1..s.total_parts |-> 0],
                        !.runDelays = [i \in 1..s.total_parts |-> <<>>],
                        !.runLedger = <<>>,
                        !.runStartErrors = Len(s.errors),
                        !.lastCall = [partNumber |-> 0, attempt |-> 0],
                        !.lastError = "none"]
        s2 == _fireProgressCallback(s1, "preparing", s1.currentPart, 0)
    IN  LoopTop(s2)

Start ==
    /\ pc = "idle"
    /\ runs < MaxRuns
    /\ QueueRoom(2)
    /\ Commit(start(Cur))

\* start(), lines 2185-2190: a 500 ms sleep of the pause poll ends.
PausePollWake ==
    /\ pc = "pausePoll"
    /\ QueueRoom(2)
    /\ LET s1 == sleep(Cur, pausePollMs)
       IN  IF s1.paused /\ ~s1.cancelled
           THEN Commit(s1)
           ELSE Commit(_postPartWithRetry(s1))

\* _postPartWithRetry, lines 2426-2482 or the catch block: the transport
\* call settles with the given outcome.
TransportSettles(s, outcome) ==
    IF outcome = "ok"
    THEN BeginCooldown(RecordPosted(Publish(Settle(s)), Len(s.ledger) + 1))
    ELSE IF outcome = "nolink"
    THEN CatchError(Settle(s), "invalid_result")
    ELSE CatchError(Settle(s), outcome)

\* _postPartWithRetry, lines 2516-2519: sleep(delay) is over, next attempt.
BackoffEnds(s) ==
    LET s1 == sleep(s, backoffDelay(s.attempt))
        s2 == [s1 EXCEPT !.runBackoffs[s.currentPart] = @ + 1,
                         !.runDelays[s.currentPart] = Append(@, backoffDelay(s.attempt))]
    IN  Attempt(s2, s.attempt + 1)

\* _postPartWithRetry, lines 2426-2431 and on: the transport call settles.
TransportReturnWithin(failures) ==
    /\ pc = "transport"
    /\ QueueRoom(2)
    /\ \E outcome \in Outcomes :
         /\ outcome # "ok" => Len(errors) < failures
         /\ Commit(TransportSettles(Cur, outcome))

TransportReturn == TransportReturnWithin(MaxFailures)

\* _postPartWithRetry, lines 2516-2519: the backoff sleep ends.
BackoffWake ==
    /\ pc = "backoff"
    /\ QueueRoom(2)
    /\ Commit(BackoffEnds(Cur))

CooldownNeverInterrupted(s) == FALSE

\* start(), lines 2246-2250: break when the cancelled flag is set.
CooldownInterrupted(s) == s.cancelled

\* start(), lines 2229-2254: a 1 s sleep of the cooldown loop ends.
CooldownTick(s) ==
    LET s1 == sleep(s, cooldownTickMs)
    IN  IF CooldownInterrupted(s1) THEN AfterCooldown(s1)
        ELSE IF s1.remaining - 1 > 0
        THEN _fireProgressCallback([s1 EXCEPT !.remaining = @ - 1],
                                   "cooldown", s1.currentPart, 0)
        ELSE AfterCooldown([s1 EXCEPT !.remaining = 0])

CooldownWake ==
    /\ pc = "cooldown"
    /\ QueueRoom(2)
    /\ Commit(CooldownTick(Cur))

\* pause(), lines 2323-2329.
Pause ==
    /\ QueueRoom(1)
    /\ ops < MaxOps
    /\ ~paused
    /\ Commit(_saveState([Cur EXCEPT !.ops = @ + 1, !.paused = TRUE, !.returned = FALSE]))

\* resume(), lines 2335-2341.
Resume ==
    /\ QueueRoom(1)
    /\ ops < MaxOps
    /\ paused
    /\ Commit(_saveState([Cur EXCEPT !.ops = @ + 1, !.paused = FALSE, !.returned = FALSE]))

\* cancel(), lines 2347-2353.
Cancel ==
    /\ QueueRoom(1)
    /\ ops < MaxOps
    /\ ~cancelled
    /\ Commit(_saveState([Cur EXCEPT !.ops = @ + 1, !.cancelled = TRUE, !.returned = FALSE,
                                     !.cancelAt = IF pc # "idle" THEN pc ELSE @,
                                     !.cancelPart = IF pc # "idle" THEN currentPart ELSE @]))

\* Time passes while no run is active: the operator waits out the cooldown.
IdleWait ==
    /\ pc = "idle"
    /\ sincePublish < CooldownMs
    /\ Commit(sleep([Cur EXCEPT !.returned = FALSE], CooldownMs))

restoreStateKeepsAttempts(s, state) ==
    [s EXCEPT !.currentPart = IF state.currentPart = 0 THEN 1 ELSE state.currentPart,
              !.cancelled = state.cancelled,
              !.paused = state.paused,
              !.errors = state.errors,
              !.rootPermlink = state.rootPermlink,
              !.parts = state.manifest.parts,
              !.root_permlink = state.manifest.root_permlink]

\* restoreState(state), lines 2762-2787, on an instance that is not running
\* or on the instance built after the page was reloaded, with the state that
\* loadState() reads from localStorage.
restoreState(s, state) ==
    [s EXCEPT !.currentPart = IF state.currentPart = 0 THEN 1 ELSE state.currentPart,
              !.attempts = state.attempts,
              !.cancelled = state.cancelled,
              !.paused = state.paused,
              !.errors = state.errors,
              !.rootPermlink = state.rootPermlink,
              !.parts = state.manifest.parts,
              !.root_permlink = state.manifest.root_permlink]

Reload(state) ==
    LET s1 == restoreState(Cur, state)
    IN  Commit([s1 EXCEPT !.pc = "idle", !.attempt = 0, !.remaining = 0,
                             !.returned = FALSE,
                             !.result = [success |-> FALSE, reason |-> "none"],
                             !.inFlight = {},
                             !.payload = NoPayload,
                             !.runPhases = {},
                             !.runStartPosted = PostedParts(s1.parts),
                             !.runStartPart = s1.currentPart,
                             !.runStartErrors = Len(s1.errors),
                             !.cancelAt = "none", !.cancelPart = 0,
                             !.runCalls = [i \in 1..total_parts |-> 0],
                             !.runBackoffs = [i \in 1..total_parts |-> 0],
                             !.runDelays = [i \in 1..total_parts |-> <<>>],
                             !.runLedger = <<>>,
                             !.lastCall = [partNumber |-> 0, attempt |-> 0],
                             !.lastError = "none"])

Restore ==
    /\ ls # <<>>
    /\ Reload(ls[1])

\* A snapshot written before the root locator was part of the state: the
\* rootPermlink field is absent, restoreState reads it as null (line 2775).
WithoutRoot(state) == [state EXCEPT !.rootPermlink = NullLink]

RestoreLegacy ==
    /\ ls # <<>>
    /\ Reload(WithoutRoot(ls[1]))

\* An IndexedDB request on the pipeline_state store is executed.
IdbStateDone ==
    /\ idbQueue # <<>>
    /\ LET req == Head(idbQueue) IN
       /\ idbQueue' = Tail(idbQueue)
       /\ IF req.op = "put"
          THEN /\ idbState' = <<req.state>>
               /\ idbPartsQueue' = idbPartsQueue
          ELSE /\ idbState' = <<>>
               /\ idbPartsQueue' = Append(idbPartsQueue, "deleteContentParts")
    /\ returned' = FALSE
    /\ UNCHANGED <<total_parts, parts, root_permlink, currentPart, attempts, cancelled,
          paused, errors, rootPermlink, pc, attempt, remaining, result,
          ls, idbOn, idbParts,
          timed, ledger, sincePublish, invokeGap, runs, ops, lastNote, runPhases,
          toldPosted, runStartPosted, runStartPart, cancelAt, cancelPart,
          runCalls, runBackoffs, runDelays, runLedger, runStartErrors, inFlight,
          lastCall, lastError, contentParts, payload, twin, verifier, stripper, splitter, validator, hasher, search, store>>

\* An IndexedDB request on the content_parts store is executed.
IdbPartsDone ==
    /\ idbPartsQueue # <<>>
    /\ idbPartsQueue' = Tail(idbPartsQueue)
    /\ idbParts' = (Head(idbPartsQueue) = "saveContentParts")
    /\ returned' = FALSE
    /\ UNCHANGED <<total_parts, parts, root_permlink, currentPart, attempts, cancelled,
          paused, errors, rootPermlink, pc, attempt, remaining, result,
          ls, idbOn, idbState, idbQueue,
          timed, ledger, sincePublish, invokeGap, runs, ops, lastNote, runPhases,
          toldPosted, runStartPosted, runStartPart, cancelAt, cancelPart,
          runCalls, runBackoffs, runDelays, runLedger, runStartErrors, inFlight,
          lastCall, lastError, contentParts, payload, twin, verifier, stripper, splitter, validator, hasher, search, store>>

\* constructor, lines 2049-2103: the fields of a new instance, for a manifest
\* (total_parts, parts) that is already chosen.
InstanceFields(withIdb, withClock) ==
    /\ root_permlink = NullLink
    /\ currentPart = 1
    /\ attempts = [i \in 1..total_parts |-> 0]
    /\ cancelled = FALSE
    /\ paused = FALSE
    /\ errors = <<>>
    /\ rootPermlink = NullLink
    /\ pc = "idle"
    /\ attempt = 0
    /\ remaining = 0
    /\ result = [success |-> FALSE, reason |-> "none"]
    /\ returned = FALSE
    /\ ls = <<>>
    /\ idbOn = withIdb
    /\ idbState = <<>>
    /\ idbParts = FALSE
    /\ idbQueue = <<>>
    /\ idbPartsQueue = IF withIdb THEN <<"saveContentParts">> ELSE <<>>
    /\ timed = withClock
    /\ ledger = <<>>
    /\ sincePublish = CooldownMs
    /\ invokeGap = CooldownMs
    /\ runs = 0
    /\ ops = 0
    /\ lastNote = [phase |-> "none", partNumber |-> 0, attempt |-> 0]
    /\ runPhases = {}
    /\ toldPosted = {}
    /\ runStartPosted = {}
    /\ runStartPart = 1
    /\ cancelAt = "none"
    /\ cancelPart = 0
    /\ runCalls = [i \in 1..total_parts |-> 0]
    /\ runBackoffs = [i \in 1..total_parts |-> 0]
    /\ runDelays = [i \in 1..total_parts |-> <<>>]
    /\ runLedger = <<>>
    /\ runStartErrors = 0
    /\ inFlight = {}
    /\ lastCall = [partNumber |-> 0, attempt |-> 0]
    /\ lastError = "none"
    /\ payload = NoPayload

\* The application hands the constructor the parts of splitContentIntoParts.
NewInstance(withIdb, withClock) ==
    /\ InstanceFields(withIdb, withClock)
    /\ contentParts = [i \in 1..total_parts |-> PartObject(i)]

\* The other components of the module are not in use.
NotInUse == [on |-> FALSE]

\* The components that a specification of one of the others leaves alone.
OthersNotInUse ==
    /\ validator = NotInUse
    /\ hasher = NotInUse
    /\ search = NotInUse
    /\ store = NotInUse

\* constructor, lines 2049-2103, on a manifest from createManifest.
InitPipeline(withIdb, withClock) ==
    /\ total_parts \in 1..MaxParts
    /\ parts = [i \in 1..total_parts |-> PendingRecord]
    /\ NewInstance(withIdb, withClock)
    /\ twin = <<>>
    /\ verifier = NotInUse
    /\ stripper = NotInUse
    /\ splitter = NotInUse
    /\ OthersNotInUse

Init == InitPipeline(FALSE, FALSE)

\* validateManifest, lines 1739-1765: a part has a status out of pending,
\* posted and failed, and a posted part has a permlink and an author.
PriorLink == -1
ValidRecords ==
    { PendingRecord,
      [status |-> "failed", permlink |-> NullLink, author |-> NullAuthor],
      [status |-> "posted", permlink |-> PriorLink, author |-> Author] }

\* constructor on any manifest that validateManifest accepts.
InitManifest ==
    /\ total_parts \in 1..MaxParts
    /\ parts \in [1..total_parts -> ValidRecords]
    /\ NewInstance(FALSE, FALSE)
    /\ twin = <<>>
    /\ verifier = NotInUse
    /\ stripper = NotInUse
    /\ splitter = NotInUse
    /\ OthersNotInUse

\* A turn of the event loop that runs code of start().
RunStep ==
    \/ Start
    \/ PausePollWake
    \/ TransportReturn
    \/ BackoffWake
    \/ CooldownWake

\* A call of the operator between two such turns.
OperatorCall ==
    \/ Pause
    \/ Resume
    \/ Cancel

Next ==
    \/ RunStep
    \/ OperatorCall
    \/ Restore

Spec == Init /\ [][Next]_vars

\* One pipeline instance (no page reload) with the clock running.
InitTimed == InitPipeline(FALSE, TRUE)

NextTimed ==
    \/ RunStep
    \/ OperatorCall
    \/ IdleWait

SpecTimed == InitTimed /\ [][NextTimed]_vars

InitIdb == InitPipeline(TRUE, FALSE)

\* One pipeline instance (no page reload) with IndexedDB available.
NextIdb ==
    \/ RunStep
    \/ OperatorCall
    \/ IdbStateDone
    \/ IdbPartsDone

SpecIdb == InitIdb /\ [][NextIdb]_vars

\* Runs on any validated manifest, with cancel() and page reloads; pause()
\* and resume() touch the paused flag only and are left to Spec.
NextManifest ==
    \/ Start
    \/ TransportReturn
    \/ BackoffWake
    \/ CooldownWake
    \/ Cancel
    \/ Restore

SpecManifest == InitManifest /\ [][NextManifest]_vars

\* One pipeline instance whose transport may fail through two whole runs:
\* every attempt of the first run and every attempt of the second.
TransportReturnRetry == TransportReturnWithin(MaxRetryFailures)

NextRetry ==
    \/ Start
    \/ PausePollWake
    \/ TransportReturnRetry
    \/ BackoffWake
    \/ CooldownWake
    \/ OperatorCall

SpecRetry == Init /\ [][NextRetry]_vars

\* One pipeline instance whose contentParts are part objects of the
\* splitter or plain strings, as the constructor documents them.
InitPayload ==
    /\ total_parts \in 1..MaxParts
    /\ parts = [i \in 1..total_parts |-> PendingRecord]
    /\ InstanceFields(FALSE, FALSE)
    /\ contentParts \in { [i \in 1..total_parts |-> PartObject(i)],
                          [i \in 1..total_parts |-> PartString(i)] }
    /\ twin = <<>>
    /\ verifier = NotInUse
    /\ stripper = NotInUse
    /\ splitter = NotInUse
    /\ OthersNotInUse

NextPayload ==
    \/ Start
    \/ TransportReturn
    \/ BackoffWake
    \/ CooldownWake

SpecPayload == InitPayload /\ [][NextPayload]_vars

\* Page reloads that find a snapshot without the root locator.
NextLegacy ==
    \/ RunStep
    \/ OperatorCall
    \/ RestoreLegacy

SpecLegacy == Init /\ [][NextLegacy]_vars

\* ------------------------------------------------- a second instance
\* Another tab builds a pipeline for the same series from the persisted
\* state: constructor, then restoreState(loadState(seriesId)).  The two
\* instances share localStorage and the ledger, nothing else.
OpenInstance(s, state) ==
    LET s1 == restoreState(s, state)
    IN  [s1 EXCEPT !.pc = "idle", !.attempt = 0, !.remaining = 0,
                   !.returned = FALSE,
                   !.result = [success |-> FALSE, reason |-> "none"],
                   !.runs = 0, !.ops = 0,
                   !.lastNote = [phase |-> "none", partNumber |-> 0, attempt |-> 0],
                   !.toldPosted = {},
                   !.inFlight = {},
                   !.payload = NoPayload,
                   !.runPhases = {},
                   !.runStartPosted = PostedParts(s1.parts),
                   !.runStartPart = s1.currentPart,
                   !.runStartErrors = Len(s1.errors),
                   !.cancelAt = "none", !.cancelPart = 0,
                   !.runCalls = [i \in 1..s.total_parts |-> 0],
                   !.runBackoffs = [i \in 1..s.total_parts |-> 0],
                   !.runDelays = [i \in 1..s.total_parts |-> <<>>],
                   !.runLedger = <<>>,
                   !.lastCall = [partNumber |-> 0, attempt |-> 0],
                   !.lastError = "none"]

\* The second instance as it sees the shared stores now.
TwinView == [twin[1] EXCEPT !.ls = ls, !.ledger = ledger]

\* A turn of the second instance: its own fields, and the shared stores.
TwinCommit(r) ==
    /\ twin' = <<r>>
    /\ ls' = r.ls
    /\ ledger' = r.ledger
    /\ returned' = FALSE
    /\ UNCHANGED <<total_parts, parts, root_permlink, currentPart, attempts, cancelled,
          paused, errors, rootPermlink, pc, attempt, remaining, result,
          idbOn, idbState, idbParts, idbQueue, idbPartsQueue,
          timed, sincePublish, invokeGap, runs, ops, lastNote, runPhases,
          toldPosted, runStartPosted, runStartPart, cancelAt, cancelPart,
          runCalls, runBackoffs, runDelays, runLedger, runStartErrors, inFlight,
          lastCall, lastError, contentParts, payload, verifier, stripper, splitter, validator, hasher, search, store>>

\* The second instance is opened while a run of the first is active.
TwinOpen ==
    /\ twin = <<>>
    /\ ls # <<>>
    /\ pc # "idle"
    /\ TwinCommit(OpenInstance(Cur, ls[1]))

TwinStart ==
    /\ twin # <<>>
    /\ TwinView.pc = "idle"
    /\ runs + TwinView.runs < MaxRuns
    /\ TwinCommit(start(TwinView))

TwinTransportReturn ==
    /\ twin # <<>>
    /\ TwinView.pc = "transport"
    /\ \E outcome \in Outcomes :
         /\ outcome # "ok" => Len(TwinView.errors) < MaxFailures
         /\ TwinCommit(TransportSettles(TwinView, outcome))

TwinBackoffWake ==
    /\ twin # <<>>
    /\ TwinView.pc = "backoff"
    /\ TwinCommit(BackoffEnds(TwinView))

TwinCooldownWake ==
    /\ twin # <<>>
    /\ TwinView.pc = "cooldown"
    /\ TwinCommit(CooldownTick(TwinView))

\* The operator of the second tab calls start() and nothing else, so that
\* instance never waits in the pause poll.
TwinStep ==
    \/ TwinOpen
    \/ TwinStart
    \/ TwinTransportReturn
    \/ TwinBackoffWake
    \/ TwinCooldownWake

\* Two tabs on one series; the operator of the first calls start() only.
NextTwin ==
    \/ Start
    \/ TransportReturn
    \/ BackoffWake
    \/ CooldownWake
    \/ TwinStep

SpecTwin == Init /\ [][NextTwin]_vars

\* ------------------------------------------------------------ strings
Strings(alphabet, maxLen) == UNION {[1..n -> alphabet] : n \in 0..maxLen}

\* The variables of the posting pipeline, for the steps of other components.
pipelineVars ==
    <<total_parts, parts, root_permlink, currentPart, attempts, cancelled,
      paused, errors, rootPermlink, pc, attempt, remaining, result,
      returned, ls, idbOn, idbState, idbParts, idbQueue, idbPartsQueue,
      timed, ledger, sincePublish, invokeGap, runs, ops, lastNote, runPhases,
      toldPosted, runStartPosted, runStartPart, cancelAt, cancelPart,
      runCalls, runBackoffs, runDelays, runLedger, runStartErrors, inFlight,
      lastCall, lastError, contentParts, payload, twin>>

\* No pipeline run takes part: one instance that is never started.
IdlePipeline ==
    /\ total_parts = 1
    /\ parts = [i \in 1..total_parts |-> PendingRecord]
    /\ NewInstance(FALSE, FALSE)
    /\ twin = <<>>

\* The regular expression /\n*<!--ARCHIVE-MANIFEST:[\s\S]*?-->/ tried at
\* position i: 0 when it does not match there, else the position of the
\* last character of the match.  \n* takes every newline at i (giving some
\* back never helps, the next character must open the marker), and the
\* lazy [\s\S]*? stops at the first "-->".
RECURSIVE SkipNewlines(_, _)
SkipNewlines(str, i) ==
    IF i <= Len(str) /\ str[i] = NL THEN SkipNewlines(str, i + 1) ELSE i

MatchEnd(str, i) ==
    LET k == SkipNewlines(str, i)
        closes == {c \in (k + 1)..Len(str) : str[c] = CLOSE}
    IN  IF k <= Len(str) /\ str[k] = OPEN /\ closes # {}
        THEN CHOOSE c \in closes : \A d \in closes : c <= d
        ELSE 0

\* content.replace(regex with flag g, ''): leftmost matches, left to right.
RECURSIVE ReplaceFrom(_, _)
ReplaceFrom(str, i) ==
    IF i > Len(str) THEN <<>>
    ELSE IF MatchEnd(str, i) > 0 THEN ReplaceFrom(str, MatchEnd(str, i) + 1)
    ELSE <<str[i]>> \o ReplaceFrom(str, i + 1)

\* stripManifestComment(content), lines 1131-1140.
stripManifestComment(content) ==
    IF content = <<>> THEN content ELSE ReplaceFrom(content, 1)

\* ------------------------------------------- stripManifestComment alone
\* The body the pipeline publishes for a part content, then stripped.
InitStrip ==
    /\ IdlePipeline
    /\ verifier = NotInUse
    /\ splitter = NotInUse
    /\ OthersNotInUse
    /\ \E c \in Strings({"x", NL}, MaxLen), m \in Strings({"j"}, 2) \ {<<>>} :
         stripper = [on |-> TRUE, content |-> c, manifest |-> m,
                     body |-> bodyWithManifest(c, m), done |-> FALSE, out |-> <<>>]

Strip ==
    /\ stripper.on
    /\ ~stripper.done
    /\ stripper' = [stripper EXCEPT !.done = TRUE,
                                    !.out = stripManifestComment(stripper.body)]
    /\ UNCHANGED <<pipelineVars, verifier, splitter, validator, hasher, search, store>>

NextStrip == Strip

SpecStrip == InitStrip /\ [][NextStrip]_vars

\* ------------------------------------------------ verifyCompletedParts
\* A digest is known by the text it was computed from: equal digests, equal
\* texts.
Sha256(input) == <<"sha256", input>>

\* hashString(input), lines 1149-1190 (the primary digest).
hashString(input) == [sha256 |-> Sha256(input)]

\* The entries of manifest.part_hashes for the series that is verified:
\* hashMultiPartContent hashes each part content as it is (lines 1213-1224).
hashMultiPartContent(n) == [i \in 1..n |-> hashString(PartContent(i))]

\* What window.getHiveContent(author, permlink) can do for part i: throw,
\* return null, return a record without body, or return a record whose body
\* is the body the pipeline published, the bare part content, or another
\* text.
FetchResults(i) ==
    { [kind |-> "throws", body |-> <<>>],
      [kind |-> "null", body |-> <<>>],
      [kind |-> "nobody", body |-> <<>>],
      [kind |-> "post", body |-> bodyWithManifest(PartContent(i), compactManifestForPost)],
      [kind |-> "post", body |-> PartContent(i)],
      [kind |-> "post", body |-> <<"y">>] }

\* verifyCompletedParts, lines 1810-1903: one iteration of the loop, with
\* the result of the fetch.
VerifyIteration(v, post) ==
    LET partNumber == v.i
        part == v.parts[v.i]
        next == [v EXCEPT !.i = @ + 1]
    IN  IF part.status # "posted"
        THEN [next EXCEPT !.missing = Append(@, partNumber)]
        ELSE LET v1 == [next EXCEPT !.totalChecked = @ + 1,
                                    !.fetched = @ \cup {partNumber},
                                    !.got[partNumber] = post]
             IN  IF post.kind = "throws"
                 THEN [v1 EXCEPT !.failed = Append(@, partNumber)]
                 ELSE IF post.kind = "null" \/ post.kind = "nobody"
                 THEN [v1 EXCEPT !.failed = Append(@, partNumber)]
                 ELSE IF v.i <= Len(v.partHashes)
                 THEN LET expectedHash == v.partHashes[v.i]
                          actualHash == hashString(post.body)
                          v2 == [v1 EXCEPT !.compared = @ \cup {partNumber}]
                      IN  IF actualHash.sha256 # expectedHash.sha256
                          THEN [v2 EXCEPT !.failed = Append(@, partNumber)]
                          ELSE [v2 EXCEPT !.verified = Append(@, partNumber)]
                 ELSE [v1 EXCEPT !.verified = Append(@, partNumber)]

NotFetched == [kind |-> "none", body |-> <<>>]

\* verifyCompletedParts(manifest, partHashes): the manifest is one that
\* validateManifest accepts; partHashes is manifest.part_hashes or is not
\* given (null, here the empty sequence).
InitVerify ==
    /\ IdlePipeline
    /\ stripper = NotInUse
    /\ splitter = NotInUse
    /\ OthersNotInUse
    /\ \E n \in 1..MaxVerify :
         \E ps \in [1..n -> ValidRecords], ph \in {<<>>, hashMultiPartContent(n)} :
            verifier = [on |-> TRUE, parts |-> ps, partHashes |-> ph, i |-> 1,
                        verified |-> <<>>, failed |-> <<>>, missing |-> <<>>,
                        totalChecked |-> 0, fetched |-> {}, compared |-> {},
                        got |-> [k \in 1..n |-> NotFetched]]

VerifyNext ==
    /\ verifier.on
    /\ verifier.i <= Len(verifier.parts)
    /\ \E post \in FetchResults(verifier.i) :
         verifier' = VerifyIteration(verifier, post)
    /\ UNCHANGED <<pipelineVars, stripper, splitter, validator, hasher, search, store>>

NextVerify == VerifyNext

SpecVerify == InitVerify /\ [][NextVerify]_vars

\* ----------------------------------------------- splitContentIntoParts
\* A content is a sequence of segments [ch, n]: n >= 1 times the character
\* ch, neighbours with different characters.  "a" is a letter (1 byte in
\* UTF-8), "w" a character of 3 bytes and one UTF-16 unit, "nl" a newline,
\* "dot" a full stop, "sp" a space.  Positions count UTF-16 units from 0.
BytesOf(ch) == IF ch = "w" THEN 3 ELSE 1

RECURSIVE Length(_)
Length(content) ==
    IF content = <<>> THEN 0 ELSE Head(content).n + Length(Tail(content))

\* new TextEncoder().encode(content).length
RECURSIVE EncodedLength(_)
EncodedLength(content) ==
    IF content = <<>> THEN 0
    ELSE Head(content).n * BytesOf(Head(content).ch) + EncodedLength(Tail(content))

\* content.substring(0, k)
RECURSIVE Prefix(_, _)
Prefix(content, k) ==
    IF k = 0 \/ content = <<>> THEN <<>>
    ELSE IF Head(content).n <= k
    THEN <<Head(content)>> \o Prefix(Tail(content), k - Head(content).n)
    ELSE <<[ch |-> Head(content).ch, n |-> k]>>

SubstringWhole(content, k) == content

\* content.substring(k)
RECURSIVE Substring(_, _)
Substring(content, k) ==
    IF content = <<>> THEN <<>>
    ELSE IF k = 0 THEN content
    ELSE IF Head(content).n <= k THEN Substring(Tail(content), k - Head(content).n)
    ELSE <<[ch |-> Head(content).ch, n |-> Head(content).n - k]>> \o Tail(content)

\* a + b
Concat(a, b) ==
    IF a = <<>> THEN b
    ELSE IF b = <<>> THEN a
    ELSE IF a[Len(a)].ch = b[1].ch
    THEN SubSeq(a, 1, Len(a) - 1)
         \o <<[ch |-> b[1].ch, n |-> a[Len(a)].n + b[1].n]>>
         \o Tail(b)
    ELSE a \o b

\* content.trim().length === 0
Blank(content) == \A i \in 1..Len(content) : content[i].ch \in {"nl", "sp"}

\* calculateByteSize(content), lines 824-838: the encoded length plus
\* Math.ceil(encoded.length * 0.03).
calculateByteSize(content) ==
    LET encoded == EncodedLength(content)
        jsonOverhead == (3 * encoded + 99) \div 100
    IN  IF content = <<>> THEN 0 ELSE encoded + jsonOverhead

\* needsSplitting(content), lines 846-850.
needsSplitting(content) == calculateByteSize(content) > SAFE_CHUNK_SIZE_BYTES

\* Position of the first character of segment i.
SegmentStart(content, i) == Length(SubSeq(content, 1, i - 1))

\* The positions after the boundary markers that the search of
\* findSplitPosition visits (indexOf from the end of the marker before):
\* "\n\n" for paragraph; ". " and ".\n" for sentence; " " for word.  The
\* other markers of SPLIT_CONFIG need characters these contents do not have.
MarkerEnds(content, boundary) ==
    UNION { CASE boundary = "paragraph" /\ content[i].ch = "nl"
                   -> {SegmentStart(content, i) + 2 * j : j \in 1..(content[i].n \div 2)}
              [] boundary = "sentence" /\ content[i].ch = "dot" /\ i < Len(content)
                   -> IF content[i + 1].ch \in {"sp", "nl"}
                      THEN {SegmentStart(content, i) + content[i].n + 1}
                      ELSE {}
              [] boundary = "word" /\ content[i].ch = "sp"
                   -> {SegmentStart(content, i) + j : j \in 1..content[i].n}
              [] OTHER -> {}
            : i \in 1..Len(content) }

\* findSplitPosition, lines 927-963: the markers from left to right, as
\* long as the chunk up to the marker fits.
RECURSIVE ScanMarkers(_, _, _, _)
ScanMarkers(content, ends, targetSize, bestSplitPos) ==
    IF ends = {} THEN bestSplitPos
    ELSE LET posAfterMarker == CHOOSE e \in ends : \A f \in ends : e <= f
             chunkSize == calculateByteSize(Prefix(content, posAfterMarker))
         IN  IF chunkSize <= targetSize
             THEN ScanMarkers(content, ends \ {posAfterMarker}, targetSize, posAfterMarker)
             ELSE bestSplitPos

\* findSplitPosition, case 'character', lines 894-923: the characters one by
\* one (here a segment at a time), their bytes added up without overhead.
RECURSIVE ScanCharacters(_, _, _, _)
ScanCharacters(content, targetSize, charPos, byteCount) ==
    IF content = <<>> THEN charPos
    ELSE LET charBytes == BytesOf(Head(content).ch)
             fit == (targetSize - byteCount) \div charBytes
         IN  IF fit < Head(content).n
             THEN charPos + fit
             ELSE ScanCharacters(Tail(content), targetSize,
                                 charPos + Head(content).n,
                                 byteCount + Head(content).n * charBytes)

\* findSplitPosition(content, targetSize, boundary), lines 876-964.
findSplitPosition(content, targetSize, boundary) ==
    IF boundary = "character"
    THEN ScanCharacters(content, targetSize, 0, 0)
    ELSE ScanMarkers(content, MarkerEnds(content, boundary), targetSize, 0)

\* SPLIT_CONFIG.preferredBoundary, then SPLIT_CONFIG.boundaryFallbacks.
boundaryTypes == <<"paragraph", "sentence", "word", "character">>

usableChunkSize == SAFE_CHUNK_SIZE_BYTES - METADATA_OVERHEAD_BYTES

\* splitContentIntoParts, lines 1011-1027: the boundary kinds in order of
\* preference, from kind number k on.
RECURSIVE TryBoundaries(_, _)
TryBoundaries(remainingContent, k) ==
    LET boundary == boundaryTypes[k]
        splitPos == findSplitPosition(remainingContent, usableChunkSize, boundary)
        chunkSize == calculateByteSize(Prefix(remainingContent, splitPos))
    IN  IF /\ splitPos > 0
           /\ \/ chunkSize >= minChunkSizeBytes
              \/ Blank(Substring(remainingContent, splitPos))
        THEN [splitPos |-> splitPos, boundaryUsed |-> boundary]
        ELSE IF k < Len(boundaryTypes) THEN TryBoundaries(remainingContent, k + 1)
        ELSE [splitPos |-> splitPos, boundaryUsed |-> "character"]

\* String.prototype.trimStart
RECURSIVE TrimStart(_)
TrimStart(content) ==
    IF content # <<>> /\ Head(content).ch \in {"nl", "sp"}
    THEN TrimStart(Tail(content))
    ELSE content

NextRemainingTrimmed(remainingContent, splitPos) ==
    TrimStart(Substring(remainingContent, splitPos))

\* splitContentIntoParts, line 1067: the rest, not trimmed.
NextRemaining(remainingContent, splitPos) ==
    Substring(remainingContent, splitPos)

\* splitContentIntoParts, lines 1001-1075: one iteration of the while loop
\* on its local variables, the test of its condition included. A loop that
\* has ended stays as it is.
LoopBody(s) ==
    IF s.done THEN s
    ELSE IF Length(s.remainingContent) = 0 THEN [s EXCEPT !.done = TRUE]
    ELSE LET try == TryBoundaries(s.remainingContent, 1)
             cut == IF try.splitPos = 0
                    THEN [splitPos |-> findSplitPosition(s.remainingContent,
                                                         usableChunkSize, "character"),
                          boundaryUsed |-> "character (forced)"]
                    ELSE try
             partContent == Prefix(s.remainingContent, cut.splitPos)
         IN  IF cut.splitPos = 0
             THEN [s EXCEPT !.done = TRUE,
                            !.parts = Append(@,
                                [partNumber |-> s.partNumber,
                                 content |-> s.remainingContent,
                                 byteSize |-> calculateByteSize(s.remainingContent),
                                 boundary |-> "emergency (no split possible)"])]
             ELSE [s EXCEPT !.parts = Append(@,
                                [partNumber |-> s.partNumber,
                                 content |-> partContent,
                                 byteSize |-> calculateByteSize(partContent),
                                 boundary |-> cut.boundaryUsed]),
                            !.remainingContent = NextRemaining(@, cut.splitPos),
                            !.partNumber = @ + 1,
                            !.threw = s.partNumber + 1 > maxPartCount,
                            !.done = s.partNumber + 1 > maxPartCount]

\* n iterations of the loop, one half after the other.
RECURSIVE Iterate(_, _)
Iterate(s, n) ==
    IF n = 0 THEN s
    ELSE IF n = 1 THEN LoopBody(s)
    ELSE LET half == Iterate(s, n \div 2)
         IN  IF half.done THEN half ELSE Iterate(half, n - (n \div 2))

\* splitContentIntoParts(content), lines 974-1085: the local variables when
\* it returns or throws. The loop ends within maxPartCount iterations and
\* one more test of its condition.
splitContentIntoParts(content) ==
    IF ~needsSplitting(content)
    THEN [done |-> TRUE, threw |-> FALSE, remainingContent |-> <<>>, partNumber |-> 1,
          parts |-> <<[partNumber |-> 1, content |-> content,
                       byteSize |-> calculateByteSize(content), boundary |-> "none"]>>]
    ELSE Iterate([done |-> FALSE, threw |-> FALSE, remainingContent |-> content,
                  partNumber |-> 1, parts |-> <<>>],
                 maxPartCount + 1)

\* Contents to split: runs of letters from one character to 100 full parts (the usable
\* budget in bytes, and 99 and 100 times it), runs of 3-byte characters,
\* and markers of every boundary kind.
TextLengths ==
    {1, 9000, 30000, 100000, usableChunkSize, 2 * usableChunkSize,
     99 * usableChunkSize, 100 * usableChunkSize}

Segments ==
    {[ch |-> "a", n |-> n] : n \in TextLengths}
    \cup {[ch |-> "w", n |-> n] : n \in {1, 30000}}
    \cup {[ch |-> "nl", n |-> 1], [ch |-> "nl", n |-> 2],
          [ch |-> "dot", n |-> 1], [ch |-> "sp", n |-> 1]}

Contents ==
    {c \in UNION {[1..k -> Segments] : k \in 0..MaxSegments} :
        \A i \in 1..(Len(c) - 1) : c[i].ch # c[i + 1].ch}

InitSplit ==
    /\ IdlePipeline
    /\ verifier = NotInUse
    /\ stripper = NotInUse
    /\ OthersNotInUse
    /\ \E c \in Contents :
         splitter = [on |-> TRUE, content |-> c, done |-> FALSE,
                     out |-> [done |-> FALSE, threw |-> FALSE, remainingContent |-> c,
                             partNumber |-> 1, parts |-> <<>>]]

Split ==
    /\ splitter.on
    /\ ~splitter.done
    /\ splitter' = [splitter EXCEPT !.done = TRUE,
                                    !.out = splitContentIntoParts(splitter.content)]
    /\ UNCHANGED <<pipelineVars, verifier, stripper, validator, hasher, search, store>>

NextSplit == Split

SpecSplit == InitSplit /\ [][NextSplit]_vars

\* splitContentIntoParts, lines 986-999: a content that needs splitting, at
\* the entry of the while loop.
InitSplitLoop ==
    /\ IdlePipeline
    /\ verifier = NotInUse
    /\ stripper = NotInUse
    /\ OthersNotInUse
    /\ \E c \in {x \in Contents : needsSplitting(x)} :
         splitter = [on |-> TRUE, content |-> c, done |-> FALSE,
                     out |-> [done |-> FALSE, threw |-> FALSE, remainingContent |-> c,
                             partNumber |-> 1, parts |-> <<>>]]

\* One iteration of the while loop of splitContentIntoParts.
SplitStep ==
    /\ splitter.on
    /\ ~splitter.done
    /\ splitter' = [splitter EXCEPT !.out = LoopBody(splitter.out),
                                    !.done = LoopBody(splitter.out).done]
    /\ UNCHANGED <<pipelineVars, verifier, stripper, validator, hasher, search, store>>

NextSplitLoop == SplitStep

SpecSplitLoop == InitSplitLoop /\ [][NextSplitLoop]_vars

\* ----------------------------------------------------- manifest tools
\* A manifest as validateManifest reads it.  A field that the code only
\* tests for presence or type carries the class of its value: "missing"
\* (undefined, null or an empty value), or the type it has.
PartEntry(i, status, permlink, author) ==
    [part_number |-> i, status |-> status, permlink |-> permlink, author |-> author,
     posted_at |-> 0]

HashEntry(i) == [part_number |-> i, sha256 |-> "string"]

\* createManifest, lines 1495-1522, for totalParts = n.
FreshManifest(n) ==
    [series_id |-> "uuid", version |-> "string", total_parts |-> n,
     content_hash_full |-> "object", source_url |-> "string",
     part_hashes |-> [kind |-> "array", entries |-> [i \in 1..n |-> HashEntry(i)]],
     parts |-> [kind |-> "array",
                entries |-> [i \in 1..n |-> PartEntry(i, "pending", NullLink, NullAuthor)]],
     architecture |-> "threaded_replies", root_permlink |-> "null"]

\* The first entry, from position i on, that the forEach over part_hashes
\* throws for (0: none), lines 1717-1732.
RECURSIVE BadHashEntry(_, _)
BadHashEntry(entries, i) ==
    IF i > Len(entries) THEN 0
    ELSE IF \/ entries[i].part_number = 0
            \/ entries[i].sha256 = "missing"
            \/ entries[i].part_number # i
         THEN i
         ELSE BadHashEntry(entries, i + 1)

\* The same for the forEach over parts, lines 1735-1766.
RECURSIVE BadPartEntry(_, _)
BadPartEntry(entries, i) ==
    IF i > Len(entries) THEN 0
    ELSE IF \/ entries[i].part_number = 0
            \/ entries[i].part_number # i
            \/ entries[i].status = "missing"
            \/ entries[i].status \notin {"pending", "posted", "failed"}
            \/ /\ entries[i].status = "posted"
               /\ \/ entries[i].permlink = NullLink
                  \/ entries[i].author = NullAuthor
         THEN i
         ELSE BadPartEntry(entries, i + 1)

validateManifestAcceptsAnyTotal(manifest) ==
    \/ manifest.series_id = "missing"
    \/ manifest.version = "missing"
    \/ manifest.content_hash_full = "missing"
    \/ manifest.source_url = "missing"
    \/ manifest.part_hashes.kind = "missing"
    \/ manifest.series_id # "uuid"
    \/ manifest.parts.kind # "array"
    \/ Len(manifest.parts.entries) # manifest.total_parts
    \/ manifest.content_hash_full \notin {"string", "object"}
    \/ manifest.part_hashes.kind # "array"
    \/ Len(manifest.part_hashes.entries) # manifest.total_parts
    \/ BadHashEntry(manifest.part_hashes.entries, 1) # 0
    \/ BadPartEntry(manifest.parts.entries, 1) # 0
    \/ manifest.architecture \notin {"undefined", "threaded_replies"}
    \/ manifest.root_permlink \notin {"undefined", "null", "string"}

\* validateManifest(manifest), lines 1657-1785: TRUE when it throws.
validateManifestThrows(manifest) ==
    \/ manifest.series_id = "missing"
    \/ manifest.version = "missing"
    \/ manifest.total_parts = 0
    \/ manifest.content_hash_full = "missing"
    \/ manifest.source_url = "missing"
    \/ manifest.part_hashes.kind = "missing"
    \/ manifest.series_id # "uuid"
    \/ manifest.total_parts < 1
    \/ manifest.total_parts > maxPartCount
    \/ manifest.parts.kind # "array"
    \/ Len(manifest.parts.entries) # manifest.total_parts
    \/ manifest.content_hash_full \notin {"string", "object"}
    \/ manifest.part_hashes.kind # "array"
    \/ Len(manifest.part_hashes.entries) # manifest.total_parts
    \/ BadHashEntry(manifest.part_hashes.entries, 1) # 0
    \/ BadPartEntry(manifest.parts.entries, 1) # 0
    \/ manifest.architecture \notin {"undefined", "threaded_replies"}
    \/ manifest.root_permlink \notin {"undefined", "null", "string"}

\* HivePostingPipeline.constructor, lines 2049-2072, with a transport
\* function and an author: TRUE when it throws and builds no pipeline.
constructorThrows(manifest, contentPartsLength) ==
    \/ contentPartsLength # manifest.total_parts
    \/ validateManifestThrows(manifest)

\* Manifests to validate.
\* (a) total_parts and the lengths of the arrays at and around the limits;
TotalsToTry == {0, 1, 2, maxPartCount, maxPartCount + 1}

SizedManifests ==
    {[FreshManifest(k) EXCEPT !.total_parts = n,
                              !.part_hashes.entries = [i \in 1..h |-> HashEntry(i)]] :
        n \in TotalsToTry, k \in TotalsToTry, h \in TotalsToTry}

\* (b) every combination of part records in a short manifest;
PartStatuses == {"missing", "pending", "posted", "failed", "other"}

PartEntries(i) ==
    {PartEntry(j, st, pl, au) :
        j \in {i, 0}, st \in PartStatuses,
        pl \in {NullLink, PriorLink}, au \in {NullAuthor, Author}}

PartsManifests ==
    UNION {{[FreshManifest(n) EXCEPT !.parts.entries = ps] :
                ps \in {f \in [1..n -> UNION {PartEntries(i) : i \in 1..n}] :
                           \A i \in 1..n : f[i] \in PartEntries(i)}} :
           n \in 1..MaxEntries}

\* (c) every combination of the other fields of a manifest of one part.
HeaderManifests ==
    {[FreshManifest(1) EXCEPT !.series_id = id, !.version = v,
                              !.content_hash_full = chf, !.source_url = src,
                              !.part_hashes = ph, !.parts.kind = pk,
                              !.architecture = arch, !.root_permlink = root] :
        id \in {"uuid", "string", "missing"},
        v \in {"string", "missing"},
        chf \in {"string", "object", "number", "missing"},
        src \in {"string", "missing"},
        ph \in {[kind |-> "array", entries |-> <<HashEntry(1)>>],
                [kind |-> "array", entries |-> <<HashEntry(2)>>],
                [kind |-> "array", entries |-> <<[part_number |-> 1, sha256 |-> "missing"]>>],
                [kind |-> "object", entries |-> <<>>],
                [kind |-> "missing", entries |-> <<>>]},
        pk \in {"array", "missing"},
        arch \in {"undefined", "threaded_replies", "string"},
        root \in {"undefined", "null", "string", "number"}}

Manifests == SizedManifests \cup PartsManifests \cup HeaderManifests

InitValidate ==
    /\ IdlePipeline
    /\ verifier = NotInUse
    /\ stripper = NotInUse
    /\ splitter = NotInUse
    /\ hasher = NotInUse
    /\ search = NotInUse
    /\ store = NotInUse
    /\ \E m \in Manifests, c \in TotalsToTry :
         /\ c \in {m.total_parts, Len(m.parts.entries)}
         /\ validator = [on |-> TRUE, op |-> "construct", manifest |-> m,
                         contentParts |-> c, done |-> FALSE,
                         validateThrew |-> FALSE, constructorThrew |-> FALSE]

\* new HivePostingPipeline({manifest, contentParts, ...}) and, next to it,
\* validateManifest(manifest) on its own.
Validate ==
    /\ validator.on
    /\ validator.op = "construct"
    /\ ~validator.done
    /\ validator' = [validator EXCEPT
                        !.done = TRUE,
                        !.validateThrew = validateManifestThrows(validator.manifest),
                        !.constructorThrew = constructorThrows(validator.manifest,
                                                               validator.contentParts)]
    /\ UNCHANGED <<pipelineVars, verifier, stripper, splitter, hasher, search, store>>

NextValidate == Validate

SpecValidate == InitValidate /\ [][NextValidate]_vars

updateManifestWithPostCallUnchecked(manifest, partNumber, postInfo, now) ==
    [threw |-> FALSE,
     manifest |-> [manifest EXCEPT !.parts.entries =
                      [i \in DOMAIN @ |->
                          IF i = partNumber
                          THEN [part_number |-> partNumber, permlink |-> postInfo.permlink,
                                author |-> postInfo.author, status |-> "posted",
                                posted_at |-> now]
                          ELSE @[i]]]]

\* updateManifestWithPost(manifest, partNumber, postInfo), lines 1539-1556,
\* on a whole manifest and at the time now: whether it throws, and the
\* manifest after the call.
updateManifestWithPostCall(manifest, partNumber, postInfo, now) ==
    LET partIndex == partNumber - 1
    IN  IF partIndex < 0 \/ partIndex >= manifest.total_parts
        THEN [threw |-> TRUE, manifest |-> manifest]
        ELSE [threw |-> FALSE,
              manifest |-> [manifest EXCEPT !.parts.entries[partNumber] =
                               [part_number |-> partNumber, permlink |-> postInfo.permlink,
                                author |-> postInfo.author, status |-> "posted",
                                posted_at |-> now]]]

\* The manifests of up to MaxParts parts that validateManifest accepts.
ValidManifests ==
    UNION {{[FreshManifest(n) EXCEPT !.parts.entries =
                [i \in 1..n |-> PartEntry(i, rs[i].status, rs[i].permlink, rs[i].author)]] :
                rs \in [1..n -> ValidRecords]} :
           n \in 1..MaxParts}

InitUpdate ==
    /\ IdlePipeline
    /\ verifier = NotInUse
    /\ stripper = NotInUse
    /\ splitter = NotInUse
    /\ hasher = NotInUse
    /\ search = NotInUse
    /\ store = NotInUse
    /\ \E m \in ValidManifests, n \in -1..(MaxParts + 1), au \in {Author, "other"} :
         validator = [on |-> TRUE, op |-> "update", manifest |-> m, partNumber |-> n,
                      postInfo |-> [permlink |-> n + 2, author |-> au],
                      now |-> 1, done |-> FALSE, threw |-> FALSE, before |-> m]

Update ==
    /\ validator.on
    /\ validator.op = "update"
    /\ ~validator.done
    /\ LET r == updateManifestWithPostCall(validator.manifest, validator.partNumber,
                                           validator.postInfo, validator.now)
       IN  validator' = [validator EXCEPT !.done = TRUE, !.threw = r.threw,
                                          !.manifest = r.manifest]
    /\ UNCHANGED <<pipelineVars, verifier, stripper, splitter, hasher, search, store>>

NextUpdate == Update

SpecUpdate == InitUpdate /\ [][NextUpdate]_vars

\* ------------------------------------------ hashing and its verification
\* null, for a digest that could not be computed.
NullDigest == <<"null">>

Digest(algorithm, input) == <<algorithm, input>>

\* hashString(input), lines 1149-1190, with all three digests, in a page
\* where blakejs works or not and md5 is loaded or not.
hashStringIn(env, input) ==
    IF ~env.md5
    THEN [threw |-> TRUE, sha256 |-> NullDigest, blake2b |-> NullDigest, md5 |-> NullDigest]
    ELSE [threw |-> FALSE,
          sha256 |-> Digest("sha256", input),
          blake2b |-> IF env.blake2b THEN Digest("blake2b", input) ELSE NullDigest,
          md5 |-> Digest("md5", input)]

\* contentParts.join('')
RECURSIVE JoinParts(_)
JoinParts(partTexts) ==
    IF partTexts = <<>> THEN <<>>
    ELSE Head(partTexts) \o JoinParts(Tail(partTexts))

\* hashMultiPartContent(contentParts), lines 1205-1244.
hashMultiPartContentIn(env, partTexts) ==
    IF Len(partTexts) = 0 \/ ~env.md5
    THEN [threw |-> TRUE, partHashes |-> <<>>, fullContentHash |-> NullDigest]
    ELSE [threw |-> FALSE,
          partHashes |-> [i \in 1..Len(partTexts) |->
                             LET hashes == hashStringIn(env, partTexts[i])
                             IN  [part_number |-> i, sha256 |-> hashes.sha256,
                                  blake2b |-> hashes.blake2b, md5 |-> hashes.md5]],
          fullContentHash |-> LET h == hashStringIn(env, JoinParts(partTexts))
                              IN  [sha256 |-> h.sha256, blake2b |-> h.blake2b,
                                   md5 |-> h.md5]]

matchesNeedsDigest(actual, expected) ==
    [sha256 |-> actual.sha256 = expected.sha256,
     blake2b |-> actual.blake2b # NullDigest /\ actual.blake2b = expected.blake2b,
     md5 |-> actual.md5 = expected.md5]

\* verifyMultiPartContent, lines 1283-1294 and 1322-1330: the algorithms of
\* an expected entry compared with the actual ones (every entry that
\* hashMultiPartContent writes has all three fields, null included).
matches(actual, expected) ==
    [sha256 |-> actual.sha256 = expected.sha256,
     blake2b |-> actual.blake2b = expected.blake2b,
     md5 |-> actual.md5 = expected.md5]

\* Object.values(matches).every(m => m === true)
allMatch(m) == m.sha256 /\ m.blake2b /\ m.md5

\* verifyMultiPartContent(contentParts, expectedHashes), lines 1256-1354, for
\* expected hashes in the format hashMultiPartContent returns.
verifyMultiPartContent(env, partTexts, expectedHashes) ==
    LET actualHashes == hashMultiPartContentIn(env, partTexts)
    IN  IF actualHashes.threw
        THEN [threw |-> TRUE, valid |-> FALSE, reason |-> "none",
              partVerifications |-> <<>>, fullHashValid |-> FALSE]
        ELSE IF Len(actualHashes.partHashes) # Len(expectedHashes.partHashes)
        THEN [threw |-> FALSE, valid |-> FALSE, reason |-> "part_count_mismatch",
              partVerifications |-> <<>>, fullHashValid |-> FALSE]
        ELSE LET partVerifications ==
                     [i \in 1..Len(actualHashes.partHashes) |->
                         [partNumber |-> i,
                          valid |-> allMatch(matches(actualHashes.partHashes[i],
                                                     expectedHashes.partHashes[i]))]]
                 fullHashValid == allMatch(matches(actualHashes.fullContentHash,
                                                   expectedHashes.fullContentHash))
                 allPartsValid == \A i \in 1..Len(partVerifications) :
                                      partVerifications[i].valid
             IN  [threw |-> FALSE, valid |-> allPartsValid /\ fullHashValid,
                  reason |-> "none", partVerifications |-> partVerifications,
                  fullHashValid |-> fullHashValid]

NoHashes == [threw |-> FALSE, partHashes |-> <<>>, fullContentHash |-> NullDigest]
NoVerdict ==
    [threw |-> FALSE, valid |-> FALSE, reason |-> "none",
     partVerifications |-> <<>>, fullHashValid |-> FALSE]

InitHash ==
    /\ IdlePipeline
    /\ verifier = NotInUse
    /\ stripper = NotInUse
    /\ splitter = NotInUse
    /\ validator = NotInUse
    /\ search = NotInUse
    /\ store = NotInUse
    /\ \E n \in 1..MaxParts, b \in BOOLEAN, m \in BOOLEAN :
         \E ps \in [1..n -> Strings({"x", "y"}, MaxVerify)] :
            hasher = [on |-> TRUE, env |-> [blake2b |-> b, md5 |-> m],
                      contentParts |-> ps, stage |-> "start",
                      hashes |-> NoHashes, result |-> NoVerdict]

\* hashes = await hashMultiPartContent(contentParts)
HashParts ==
    /\ hasher.on
    /\ hasher.stage = "start"
    /\ LET h == hashMultiPartContentIn(hasher.env, hasher.contentParts)
       IN  hasher' = [hasher EXCEPT !.hashes = h,
                                    !.stage = IF h.threw THEN "threw" ELSE "hashed"]
    /\ UNCHANGED <<pipelineVars, verifier, stripper, splitter, validator, search, store>>

\* await verifyMultiPartContent(contentParts, hashes)
VerifyParts ==
    /\ hasher.on
    /\ hasher.stage = "hashed"
    /\ hasher' = [hasher EXCEPT
                     !.result = verifyMultiPartContent(hasher.env, hasher.contentParts,
                                                       hasher.hashes),
                     !.stage = "verified"]
    /\ UNCHANGED <<pipelineVars, verifier, stripper, splitter, validator, search, store>>

NextHash == HashParts \/ VerifyParts

SpecHash == InitHash /\ [][NextHash]_vars

\* ------------------------------------------- lookup: search with failover
HIVE_API_NODES ==
    <<"api.hive.blog", "api.openhive.network", "hive-api.arcange.eu",
      "rpc.ausbit.dev", "api.hivekings.com", "anyx.io", "rpc.ecency.com",
      "api.deathwing.me", "hive.roelandp.nl">>

\* null for activeSearchId and currentSearchController.  A controller is
\* known by the id of the search that made it.
NoSearch == 0

\* A call of fetchHiveAPIWithFailover: where it is suspended ("fetch",
\* "json", "backoff"), or how it ended, and its locals while it runs.
NoRequest == [status |-> "none", nodeIndex |-> 0, retry |-> 0, maxRetries |-> 0]

Running == {"fetch", "json", "backoff"}

\* The finally block, lines 220-227, then the locals are gone.
finallyAlways(s, id, status) ==
    [s EXCEPT !.activeSearchId = NoSearch,
              !.currentSearchController = NoSearch,
              !.req[id] = [NoRequest EXCEPT !.status = status]]

finallyKeepsController(s, id, status) ==
    IF s.activeSearchId = id
    THEN [s EXCEPT !.activeSearchId = NoSearch,
                   !.req[id] = [NoRequest EXCEPT !.status = status]]
    ELSE [s EXCEPT !.req[id] = [NoRequest EXCEPT !.status = status]]

finally(s, id, status) ==
    IF s.activeSearchId = id
    THEN [s EXCEPT !.activeSearchId = NoSearch,
                   !.currentSearchController = NoSearch,
                   !.req[id] = [NoRequest EXCEPT !.status = status]]
    ELSE [s EXCEPT !.req[id] = [NoRequest EXCEPT !.status = status]]

\* Lines 110-133: the head of an iteration of the retry loop, up to the
\* await of fetch.
tryNode(s, id, nodeIndex, retry) ==
    IF id \in s.aborted
    THEN finally(s, id, "cancelled")
    ELSE [s EXCEPT !.req[id].status = "fetch",
                   !.req[id].nodeIndex = nodeIndex,
                   !.req[id].retry = retry]

retryAgain(retry, maxRetries) == retry <= maxRetries

\* retry < maxRetries, line 205.
retryLeft(retry, maxRetries) == retry < maxRetries

\* The catch block, lines 193-210, and what follows it when there is no
\* wait: the next node, or the throw after the last one.
catch(s, id) ==
    LET r == s.req[id]
    IN  IF id \in s.aborted
        THEN finally(s, id, "cancelled")
        ELSE IF retryLeft(r.retry, r.maxRetries)
        THEN [s EXCEPT !.req[id].status = "backoff"]
        ELSE IF r.nodeIndex < Len(HIVE_API_NODES)
        THEN tryNode(s, id, r.nodeIndex + 1, 0)
        ELSE finally(s, id, "failed")

busyNever(s) == FALSE

\* The test of line 94.
busy(s) ==
    /\ s.activeSearchId # NoSearch
    /\ s.currentSearchController # NoSearch
    /\ s.currentSearchController \notin s.aborted

\* fetchHiveAPIWithFailover(params, maxRetries), lines 86-133: up to the
\* first await, or to the throw that rejects the call.
fetchHiveAPIWithFailover(s, maxRetries) ==
    LET thisSearchId == s.currentSearchId + 1
        s1 == [s EXCEPT !.currentSearchId = thisSearchId,
                        !.req[thisSearchId].maxRetries = maxRetries]
    IN  IF busy(s1)
        THEN [s1 EXCEPT !.req[thisSearchId] = [NoRequest EXCEPT !.status = "rejected"]]
        ELSE tryNode([s1 EXCEPT !.activeSearchId = thisSearchId,
                                !.currentSearchController = thisSearchId],
                     thisSearchId, 1, 0)

\* The await of fetch settles, lines 128-140: with a response that is ok, a
\* response that is not, or a rejection (network error, the 5-second
\* timeout, the abort).
fetchSettles(s, id, outcome) ==
    IF outcome = "ok"
    THEN [s EXCEPT !.req[id].status = "json"]
    ELSE catch(s, id)

\* The await of response.json() settles, lines 142-191: with a usable
\* result, or with something the code throws for.
jsonSettles(s, id, outcome) ==
    IF outcome = "result"
    THEN finally(s, id, "ok")
    ELSE catch(s, id)

\* The backoff wait ends, line 208: retry++ and the next iteration.
backoffEnds(s, id) ==
    tryNode(s, id, s.req[id].nodeIndex, s.req[id].retry + 1)

\* cancelCurrentSearch(), lines 63-69.
cancelCurrentSearch(s) ==
    IF s.currentSearchController # NoSearch
    THEN [s EXCEPT !.aborted = @ \cup {s.currentSearchController}]
    ELSE s

InitSearch ==
    /\ IdlePipeline
    /\ verifier = NotInUse
    /\ stripper = NotInUse
    /\ splitter = NotInUse
    /\ validator = NotInUse
    /\ hasher = NotInUse
    /\ store = NotInUse
    /\ search = [on |-> TRUE, currentSearchId |-> 0, activeSearchId |-> NoSearch,
                 currentSearchController |-> NoSearch, aborted |-> {},
                 req |-> [i \in 1..MaxSearches |-> NoRequest]]

searchFrame == <<pipelineVars, verifier, stripper, splitter, validator, hasher, store>>

\* The calls that are suspended at an await.
Open(s) == {id \in 1..MaxSearches : s.req[id].status \in Running}

\* A call that would be rejected is always possible; one that starts a
\* search, while fewer than MaxOpen calls are suspended.
SearchCall ==
    /\ search.on
    /\ search.currentSearchId < MaxSearches
    /\ Cardinality(Open(search)) < MaxOpen \/ busy(search)
    /\ \E maxRetries \in 0..2 :
         search' = fetchHiveAPIWithFailover(search, maxRetries)
    /\ UNCHANGED searchFrame

\* A fetch whose request was aborted rejects.
FetchSettles ==
    /\ search.on
    /\ \E id \in 1..MaxSearches, outcome \in {"ok", "not_ok", "rejected"} :
         /\ search.req[id].status = "fetch"
         /\ id \in search.aborted => outcome = "rejected"
         /\ search' = fetchSettles(search, id, outcome)
    /\ UNCHANGED searchFrame

JsonSettles ==
    /\ search.on
    /\ \E id \in 1..MaxSearches, outcome \in {"result", "throws"} :
         /\ search.req[id].status = "json"
         /\ search' = jsonSettles(search, id, outcome)
    /\ UNCHANGED searchFrame

SearchBackoffEnds ==
    /\ search.on
    /\ \E id \in 1..MaxSearches :
         /\ search.req[id].status = "backoff"
         /\ search' = backoffEnds(search, id)
    /\ UNCHANGED searchFrame

CancelSearch ==
    /\ search.on
    /\ search' = cancelCurrentSearch(search)
    /\ UNCHANGED searchFrame

NextSearch ==
    SearchCall \/ FetchSettles \/ JsonSettles \/ SearchBackoffEnds \/ CancelSearch

SpecSearch == InitSearch /\ [][NextSearch]_vars

\* ------------------------------ verifyCompletedParts with a callback
\* The statuses the progress callback is called with; a callback is known
\* by the set of statuses at which it throws.
CallbackStatuses == {"checking", "failed", "verified", "error"}

\* Lines 1891-1903: the catch block; a throw of its callback leaves the
\* function.
verifyCatch(v) ==
    LET v1 == [v EXCEPT !.failed = Append(@, v.i)]
    IN  IF "error" \in v.throwsOn THEN [v1 EXCEPT !.rejected = TRUE] ELSE v1

\* Lines 1841-1852 and 1862-1875: failed.push, the callback, continue.
verifyFailed(v) ==
    LET v1 == [v EXCEPT !.failed = Append(@, v.i)]
    IN  IF "failed" \in v.throwsOn THEN verifyCatch(v1) ELSE v1

\* Lines 1880-1890: verified.push, the callback.
verifyVerified(v) ==
    LET v1 == [v EXCEPT !.verified = Append(@, v.i)]
    IN  IF "verified" \in v.throwsOn THEN verifyCatch(v1) ELSE v1

\* Lines 1810-1903 with a progressCallback: the body of the loop for part
\* v.i, then i++ unless the function was left by a throw.
verifyBody(v, post) ==
    LET part == v.parts[v.i]
    IN  IF part.status # "posted"
        THEN [v EXCEPT !.missing = Append(@, v.i)]
        ELSE LET v1 == [v EXCEPT !.totalChecked = @ + 1]
             IN  IF "checking" \in v.throwsOn
                 THEN [v1 EXCEPT !.rejected = TRUE]
                 ELSE IF post.kind = "throws"
                 THEN verifyCatch(v1)
                 ELSE IF post.kind = "null" \/ post.kind = "nobody"
                 THEN verifyFailed(v1)
                 ELSE IF v.i <= Len(v.partHashes)
                         /\ hashString(post.body).sha256 # v.partHashes[v.i].sha256
                 THEN verifyFailed(v1)
                 ELSE verifyVerified(v1)

verifyCompletedPartsStep(v, post) ==
    LET v1 == verifyBody(v, post)
    IN  IF v1.rejected THEN v1 ELSE [v1 EXCEPT !.i = @ + 1]

InitVerifyCallback ==
    /\ IdlePipeline
    /\ stripper = NotInUse
    /\ splitter = NotInUse
    /\ OthersNotInUse
    /\ \E n \in 1..MaxVerify :
         \E ps \in [1..n -> ValidRecords], ph \in {<<>>, hashMultiPartContent(n)},
            throwsOn \in SUBSET CallbackStatuses :
            verifier = [on |-> TRUE, parts |-> ps, partHashes |-> ph, i |-> 1,
                        verified |-> <<>>, failed |-> <<>>, missing |-> <<>>,
                        totalChecked |-> 0, throwsOn |-> throwsOn,
                        rejected |-> FALSE]

VerifyCallbackNext ==
    /\ verifier.on
    /\ ~verifier.rejected
    /\ verifier.i <= Len(verifier.parts)
    /\ \E post \in FetchResults(verifier.i) :
         verifier' = verifyCompletedPartsStep(verifier, post)
    /\ UNCHANGED <<pipelineVars, stripper, splitter, validator, hasher, search, store>>

NextVerifyCallback == VerifyCallbackNext

SpecVerifyCallback == InitVerifyCallback /\ [][NextVerifyCallback]_vars

\* ------------------------------------------------- storage: the cleanup
\* RETENTION_POLICY, in days, and the age limit of the emergency branch.
INCOMPLETE_POSTING == 14
COMPLETED_POSTING == 7
FAILED_POSTING == 30
emergencyIncompleteDays == 7

HoursPerDay == 24

\* cleanupExpiredContent, lines 522-536: shouldDelete for a pipeline state
\* with the given status and age (now - updated_at, here in hours).
shouldDelete(state, emergency) ==
    IF state.status = "completed" /\ state.age > COMPLETED_POSTING * HoursPerDay
    THEN TRUE
    ELSE IF state.status = "failed" /\ state.age > FAILED_POSTING * HoursPerDay
    THEN TRUE
    ELSE IF /\ emergency
            /\ state.status \in {"in_progress", "paused"}
            /\ state.age > emergencyIncompleteDays * HoursPerDay
    THEN TRUE
    ELSE FALSE

\* cleanupExpiredContent(emergency), lines 511-547: the cursor over the
\* pipeline_state store, in one transaction.
cleanupExpiredContent(states, emergency) ==
    {id \in states.kept : ~shouldDelete(states.record[id], emergency)}

\* _getStatus(), lines 2708-2719.
StateStatuses == {"in_progress", "paused", "completed", "failed", "cancelled"}

\* getAllIncompletePipelines(), indexeddb-storage.js lines 403-428:
\* store.getAll() and the filter on the status.
isIncomplete(state) ==
    state.status = "in_progress" \/ state.status = "paused"
        \/ state.status = "failed"

getAllIncompletePipelines(allStates) == SelectSeq(allStates, isIncomplete)

\* Ages at and just over each limit.
AgesToTry ==
    {0} \cup UNION {{d * HoursPerDay, d * HoursPerDay + 1} :
                       d \in {COMPLETED_POSTING, INCOMPLETE_POSTING, FAILED_POSTING}}

InitStore ==
    /\ IdlePipeline
    /\ verifier = NotInUse
    /\ stripper = NotInUse
    /\ splitter = NotInUse
    /\ validator = NotInUse
    /\ hasher = NotInUse
    /\ search = NotInUse
    /\ \E rs \in [1..MaxStates -> [status : StateStatuses, age : AgesToTry]] :
         store = [on |-> TRUE, record |-> rs, kept |-> 1..MaxStates,
                  ran |-> "none"]

Cleanup ==
    /\ store.on
    /\ store.ran = "none"
    /\ \E emergency \in BOOLEAN :
         store' = [store EXCEPT !.kept = cleanupExpiredContent(store, emergency),
                                !.ran = IF emergency THEN "emergency" ELSE "routine"]
    /\ UNCHANGED <<pipelineVars, verifier, stripper, splitter, validator, hasher, search>>

NextStore == Cleanup

SpecStore == InitStore /\ [][NextStore]_vars

TypeOK ==
    /\ currentPart \in 1..(total_parts + 1)
    /\ pc \in {"idle", "pausePoll", "transport", "backoff", "cooldown"}
    /\ \A i \in 1..total_parts : attempts[i] \in 0..maxAttempts

\* ------------------------------------------------------------- claims
\* What the specification calls authorization- or validation-shaped and
\* transient (timeout-shaped) transport errors.
PermanentShaped == {"unauthorized", "invalid_result"}
TransientShaped == {"timeout"}

AllPosted == \A i \in 1..total_parts : parts[i].status = "posted"

\* C1: the transport is invoked for part n >= 2 only when parts 1..n-1 are
\* all posted; within one run the part numbers of successive successful
\* publishes increase by exactly 1; a run never has two submissions in
\* flight.
C1_SequentialPosting ==
    /\ \A n \in inFlight : \A i \in 1..(n - 1) : parts[i].status = "posted"
    /\ \A i \in 1..(Len(runLedger) - 1) : runLedger[i + 1] = runLedger[i] + 1
    /\ Cardinality(inFlight) <= 1

C1_Witness ==
    /\ pc = "transport"
    /\ inFlight = {3}
    /\ runLedger = <<1, 2>>

\* C2: from a manifest with all parts pending, when the transport succeeds
\* on parts 1..k-1 and every attempt of part k fails with a transient error,
\* start() returns with the paused flag set, persisted status paused,
\* pointer k, attempt counter of k equal to 3, parts 1..k-1 posted with
\* locators and parts k..N pending.
C2_PausedAfterExhaustion ==
    ( /\ returned
      /\ runStartPosted = {}
      /\ runStartPart = 1
      /\ cancelAt = "none"
      /\ lastError \in TransientShaped )
    => LET k == lastCall.partNumber IN
       /\ paused
       /\ ls # <<>>
       /\ ls[1].status = "paused"
       /\ ls[1].paused
       /\ ls[1].currentPart = k
       /\ currentPart = k
       /\ attempts[k] = 3
       /\ ls[1].attempts[k] = 3
       /\ runCalls[k] = 3
       /\ \A i \in 1..(k - 1) :
            /\ parts[i].status = "posted"
            /\ parts[i].permlink # NullLink
            /\ ls[1].manifest.parts[i].status = "posted"
            /\ ls[1].manifest.parts[i].permlink # NullLink
       /\ \A i \in k..total_parts :
            /\ parts[i].status = "pending"
            /\ ls[1].manifest.parts[i].status = "pending"

C2_Witness ==
    /\ returned
    /\ total_parts = 3
    /\ runStartPosted = {}
    /\ cancelAt = "none"
    /\ lastError \in TransientShaped
    /\ lastCall = [partNumber |-> 3, attempt |-> 3]
    /\ PostedParts(parts) = {1, 2}

\* C3: when transient failures exhaust the attempt ceiling, the last
\* notification of the run has phase paused and no notification with phase
\* failed is emitted for that part in that run.
C3_PausedNotFailed ==
    ( /\ returned
      /\ cancelAt = "none"
      /\ lastError \in TransientShaped
      /\ lastCall.attempt = maxAttempts )
    => /\ lastNote.phase = "paused"
       /\ <<"failed", lastCall.partNumber>> \notin runPhases

\* C4: a permanent (authorization- or validation-shaped) error on attempt 1
\* of part k stops the pipeline at once: one transport invocation for k,
\* attempt counter 1, no backoff sleep, a failed notification, the error
\* appended to the error log, and none of parts k..N posted.
C4_PermanentStopsAtOnce ==
    ( /\ lastError \in PermanentShaped
      /\ lastCall.attempt = 1 )
    => LET k == lastCall.partNumber IN
       /\ pc = "idle"
       /\ result = [success |-> FALSE, reason |-> "part_failed"]
       /\ currentPart = k
       /\ runCalls[k] = 1
       /\ \A i \in (k + 1)..total_parts : runCalls[i] = 0
       /\ attempts[k] = 1
       /\ runBackoffs[k] = 0
       /\ <<"failed", k>> \in runPhases
       /\ returned => lastNote = [phase |-> "failed", partNumber |-> k, attempt |-> 1]
       /\ Len(errors) > runStartErrors
       /\ errors[Len(errors)] = [partNumber |-> k, attempt |-> 1, error |-> lastError]
       /\ (PostedParts(parts) \cap k..total_parts) \subseteq runStartPosted

C4_Witness ==
    /\ returned
    /\ total_parts = 3
    /\ lastError = "unauthorized"
    /\ lastCall = [partNumber |-> 2, attempt |-> 1]
    /\ runStartPosted = {}

\* C5: after a permanent-error failure the persisted derived status is
\* failed, and a later start() (also on a restored instance) does not invoke
\* the transport.
C5_FailedIsTerminal ==
    /\ (returned /\ lastError \in PermanentShaped)
         => (ls # <<>> /\ ls[1].status = "failed")
    /\ (\E i \in 1..runStartErrors : errors[i].error \in PermanentShaped)
         => \A n \in 1..total_parts : runCalls[n] = 0

\* C6: while the pipeline is suspended, every part the observer has been
\* shown as posted is recorded as posted, with its locator, in the persisted
\* snapshot (for part 1 also the root locator).
C6_NotifiedIsPersisted ==
    pc # "idle" =>
        \A n \in toldPosted :
            /\ ls # <<>>
            /\ ls[1].manifest.parts[n].status = "posted"
            /\ ls[1].manifest.parts[n].permlink # NullLink
            /\ n = 1 => ls[1].rootPermlink # NullLink

\* C7: a cancel() issued while the transport is in flight, during a backoff
\* wait or during the cooldown ends the run Cancelled: last notification
\* cancelled, result reason cancelled, no failed notification, pointer not
\* incremented, persisted status cancelled.
C7_CancelEndsCancelled ==
    ( /\ returned
      /\ cancelAt \in {"transport", "backoff", "cooldown"}
      /\ lastError \notin PermanentShaped )
    => /\ lastNote.phase = "cancelled"
       /\ result.reason = "cancelled"
       /\ \A n \in 1..total_parts : <<"failed", n>> \notin runPhases
       /\ currentPart = cancelPart
       /\ ls # <<>>
       /\ ls[1].status = "cancelled"

\* C8: start() reports Success exactly when the run leaves every part
\* posted, and when Success is reported the localStorage snapshot, the
\* IndexedDB pipeline state and the stored content parts are deleted.
C8_SuccessIffAllPosted ==
    /\ (returned /\ result.success)
         => /\ AllPosted
            /\ ls = <<>>
            /\ idbState = <<>>
            /\ ~idbParts
    /\ (returned /\ AllPosted) => result.success

\* C9: at least 20 time units (seconds) lie between a successful publish of
\* a part that is not the last and the next invocation of the transport.
C9_CooldownRespected == invokeGap >= CooldownMs

\* C10: once cancel() has been called during the cooldown, the sleep in
\* progress is the last one: when it ends the pipeline emits the cancelled
\* notification, persists its state and returns without invoking the
\* transport or moving the pointer.
C10_CooldownCancel ==
    [][ (pc = "cooldown" /\ cancelled) =>
          \/ /\ pc' = "cooldown"
             /\ remaining' = remaining
             /\ cancelled'
          \/ /\ pc' = "idle"
             /\ returned'
             /\ result' = [success |-> FALSE, reason |-> "cancelled"]
             /\ lastNote'.phase = "cancelled"
             /\ ls' = <<StateOf(Cur)'>>
             /\ ls'[1].status = "cancelled"
             /\ runCalls' = runCalls
             /\ ledger' = ledger
             /\ currentPart' = currentPart
          \/ /\ pc' = "idle"
             /\ ~returned'
             /\ runs' = runs
             /\ runCalls' = [i \in 1..total_parts |-> 0] ]_vars

C10_Witness ==
    /\ returned
    /\ cancelAt = "cooldown"
    /\ result.reason = "cancelled"
    /\ remaining > 1

\* C11: a pause() or cancel() called while the pipeline is suspended takes
\* effect within one polling unit: as long as the paused flag stays set no
\* new transport invocation begins (no retry of the current part, no next
\* part), and a backoff sleep during which cancel() was called is no longer
\* than one polling unit (the sleep is not divided, so a cancel() at its
\* start waits for all of it).
C11_PromptPauseCancel ==
    [][ /\ (paused /\ paused')
             => \A n \in 1..total_parts : runCalls'[n] <= runCalls[n]
        /\ ( /\ pc = "backoff"
             /\ cancelled
             /\ runBackoffs'[currentPart] > runBackoffs[currentPart] )
             => backoffDelay(attempt) <= cooldownTickMs ]_vars

\* Transport invocations of the series that have not settled, over both
\* instances.
Flights ==
    Cardinality(inFlight) + (IF twin = <<>> THEN 0 ELSE Cardinality(twin[1].inFlight))

\* C12: at most one transport invocation of a series is in flight at any
\* time; an instance created from the persisted state while a run is active
\* does not post.
C12_SingleFlight == Flights <= 1

\* C13: when part n >= 2 is attempted while no root locator is known, the
\* transport is not invoked and the failure is fatal: start() has returned
\* part_failed after that one attempt, with a failed notification, without a
\* backoff sleep and without the paused flag.
C13_RootlessIsFatal ==
    lastError = "no_root" =>
        /\ runCalls[currentPart] = 0
        /\ pc = "idle"
        /\ result = [success |-> FALSE, reason |-> "part_failed"]
        /\ attempts[currentPart] = 1
        /\ runBackoffs[currentPart] = 0
        /\ ~paused
        /\ <<"paused", currentPart>> \notin runPhases

C17_StripIsLossless ==
    (stripper.on /\ stripper.done) => stripper.out = stripper.content

InSeq(x, sq) == \E k \in 1..Len(sq) : sq[k] = x

\* The parts the verifier has classified so far.
Classified == IF verifier.on THEN 1..(verifier.i - 1) ELSE {}

\* The digest of what the fetch returned equals the expected per-part digest.
DigestMatches(k) ==
    /\ verifier.got[k].kind = "post"
    /\ Sha256(verifier.got[k].body) = Sha256(PartContent(k))

\* C15: a part that is not posted is missing and is not fetched; a posted
\* part whose fetch throws, returns nothing or returns no body is failed; a
\* posted part whose fetched digest differs from the expected one is
\* failed; a posted part with equal digests is verified; a part is verified
\* only after its digest was compared and found equal.
C15_VerifierClassifies ==
    \A k \in Classified :
        /\ verifier.parts[k].status # "posted"
             => /\ InSeq(k, verifier.missing)
                /\ k \notin verifier.fetched
        /\ (verifier.parts[k].status = "posted" /\ verifier.got[k].kind # "post")
             => InSeq(k, verifier.failed)
        /\ (verifier.parts[k].status = "posted" /\ verifier.got[k].kind = "post"
              /\ ~DigestMatches(k))
             => InSeq(k, verifier.failed)
        /\ (verifier.parts[k].status = "posted" /\ DigestMatches(k))
             => InSeq(k, verifier.verified)
        /\ InSeq(k, verifier.verified)
             => (k \in verifier.compared /\ DigestMatches(k))

\* C16: a posted part whose fetch returns the body the pipeline published
\* for it, unmodified, is classified verified and not failed.
C16_PublishedBodyVerifies ==
    \A k \in Classified :
        ( /\ verifier.parts[k].status = "posted"
          /\ verifier.got[k] = [kind |-> "post",
                                body |-> bodyWithManifest(PartContent(k), compactManifestForPost)] )
        => /\ InSeq(k, verifier.verified)
           /\ ~InSeq(k, verifier.failed)

\* The content fields of the parts, joined in part-number order.
RECURSIVE Join(_)
Join(ps) ==
    IF ps = <<>> THEN <<>>
    ELSE IF Len(ps) = 1 THEN ps[1].content
    ELSE Concat(Join(SubSeq(ps, 1, Len(ps) \div 2)),
                Join(SubSeq(ps, Len(ps) \div 2 + 1, Len(ps))))

Returned == splitter.on /\ splitter.done /\ ~splitter.out.threw

\* C18: the content fields of the parts that splitContentIntoParts returns,
\* joined in order, are the original content, character for character.
C18_JoinIsContent ==
    (Returned /\ needsSplitting(splitter.content)) =>
        Join(splitter.out.parts) = splitter.content

\* A content of three parts: the first cut after a paragraph marker (it
\* ends with the two newlines), the others cut between two letters.
C18_Witness ==
    /\ Returned
    /\ needsSplitting(splitter.content)
    /\ Len(splitter.out.parts) = 3
    /\ splitter.out.parts[1].boundary = "paragraph"
    /\ splitter.out.parts[1].content[Len(splitter.out.parts[1].content)] = [ch |-> "nl", n |-> 2]
    /\ splitter.out.parts[2].boundary = "character"

\* C19: every returned part has an estimated byte size (calculateByteSize
\* of its content) of at most the usable per-part budget, whatever boundary
\* kind cut it, except a last part that is an emergency or forced one.
C19_PartsFitBudget ==
    Returned =>
        \A i \in 1..Len(splitter.out.parts) :
            \/ splitter.out.parts[i].byteSize <= usableChunkSize
            \/ /\ i = Len(splitter.out.parts)
               /\ splitter.out.parts[i].boundary
                      \in {"emergency (no split possible)", "character (forced)"}

\* C20: splitContentIntoParts throws only when content is left after the
\* 100th part, and returns at most 100 parts when it does not throw.
C20_ThrowsOver100 ==
    (splitter.on /\ splitter.done) =>
        /\ splitter.out.threw => Length(splitter.out.remainingContent) > 0
        /\ ~splitter.out.threw => Len(splitter.out.parts) <= maxPartCount

\* C21: every returned part other than the last has an estimated byte size
\* of at least the minimum part size.
C21_OnlyLastBelowMinimum ==
    Returned =>
        \A i \in 1..(Len(splitter.out.parts) - 1) :
            splitter.out.parts[i].byteSize >= minChunkSizeBytes

\* C22: every iteration of the split loop either shortens the remaining
\* content by at least one character or ends the loop, and the loop never
\* starts an iteration after its maxPartCount-th part: it cannot run forever.
C22_SplitTerminates ==
    /\ [][(splitter.on /\ ~splitter.done) =>
            \/ splitter'.out.done
            \/ Length(splitter'.out.remainingContent)
                   < Length(splitter.out.remainingContent)]_vars
    /\ []((splitter.on /\ ~splitter.done) => splitter.out.partNumber <= maxPartCount)

\* The loop has ended after three iterations that each cut a part, and a
\* fourth test of its condition.
C22_Witness ==
    /\ splitter.on
    /\ splitter.done
    /\ ~splitter.out.threw
    /\ splitter.out.partNumber = 4
    /\ Length(splitter.out.remainingContent) = 0

\* The invariants of the data model for a manifest: the part count is within
\* 1..100, parts and part_hashes have that many entries, each entry carries
\* its position as part_number, and a posted part has a locator and an author.
DataModelInvariants(m) ==
    /\ m.total_parts \in 1..100
    /\ m.parts.kind = "array"
    /\ m.part_hashes.kind = "array"
    /\ Len(m.parts.entries) = m.total_parts
    /\ Len(m.part_hashes.entries) = m.total_parts
    /\ \A i \in 1..Len(m.parts.entries) :
         /\ m.parts.entries[i].part_number = i
         /\ m.parts.entries[i].status \in {"pending", "posted", "failed"}
         /\ m.parts.entries[i].status = "posted" =>
              /\ m.parts.entries[i].permlink # NullLink
              /\ m.parts.entries[i].author # NullAuthor
    /\ \A i \in 1..Len(m.part_hashes.entries) : m.part_hashes.entries[i].part_number = i

\* The four manifests the claim names.
NamedRejects(m) ==
    \/ m.total_parts = 0
    \/ m.total_parts = 101
    \/ m.parts.kind # "array"
    \/ Len(m.parts.entries) # m.total_parts
    \/ \E i \in 1..Len(m.parts.entries) :
         /\ m.parts.entries[i].status = "posted"
         /\ \/ m.parts.entries[i].permlink = NullLink
            \/ m.parts.entries[i].author = NullAuthor

\* C23: validateManifest throws, and the constructor builds no pipeline, for
\* total_parts 0 or 101, a parts array of another length than total_parts,
\* and a posted part without locator or author; it returns true only for
\* manifests that satisfy the invariants of the data model.
C23_ValidationRejects ==
    (validator.on /\ validator.op = "construct" /\ validator.done) =>
        /\ NamedRejects(validator.manifest) =>
             (validator.validateThrew /\ validator.constructorThrew)
        /\ validator.validateThrew => validator.constructorThrew
        /\ ~validator.validateThrew => DataModelInvariants(validator.manifest)

\* A manifest of 101 parts, complete in every other respect, was refused.
C23_Witness ==
    /\ validator.on
    /\ validator.op = "construct"
    /\ validator.done
    /\ validator.manifest = FreshManifest(101)
    /\ validator.contentParts = 101
    /\ validator.validateThrew
    /\ validator.constructorThrew

Updated == validator.on /\ validator.op = "update" /\ validator.done

\* C24: updateManifestWithPost(manifest, n, info) with 1 <= n <= total_parts
\* makes PartRecord n posted with the given locator and author and a
\* timestamp, and changes no other PartRecord and no other field; with n out
\* of range it throws and the manifest is as before.
C24_UpdateTouchesOnePart ==
    Updated =>
        IF validator.partNumber \in 1..validator.before.total_parts
        THEN /\ ~validator.threw
             /\ validator.manifest.parts.entries[validator.partNumber] =
                    [part_number |-> validator.partNumber, status |-> "posted",
                     permlink |-> validator.postInfo.permlink,
                     author |-> validator.postInfo.author,
                     posted_at |-> validator.now]
             /\ Len(validator.manifest.parts.entries) = Len(validator.before.parts.entries)
             /\ \A i \in 1..Len(validator.before.parts.entries) :
                    i # validator.partNumber =>
                        validator.manifest.parts.entries[i] = validator.before.parts.entries[i]
             /\ [validator.manifest EXCEPT !.parts = validator.before.parts] = validator.before
        ELSE /\ validator.threw
             /\ validator.manifest = validator.before

\* Part 2 of three was updated while part 1 is pending and part 3 failed.
C24_Witness ==
    /\ Updated
    /\ ~validator.threw
    /\ validator.partNumber = 2
    /\ validator.before.total_parts = 3
    /\ validator.before.parts.entries[1].status = "pending"
    /\ validator.before.parts.entries[3].status = "failed"
    /\ validator.manifest.parts.entries[2].status = "posted"

\* C25: verifyMultiPartContent(parts, hashMultiPartContent(parts)) reports
\* valid, every part valid and the full hash matching, also when the
\* secondary digest is null; entry i of the part hashes is the hash of part
\* i and the full hash is the hash of the parts joined without separator.
C25_HashRoundTrip ==
    /\ (hasher.on /\ hasher.stage \in {"hashed", "verified"}) =>
         /\ Len(hasher.hashes.partHashes) = Len(hasher.contentParts)
         /\ \A i \in 1..Len(hasher.contentParts) :
              /\ hasher.hashes.partHashes[i].part_number = i
              /\ hasher.hashes.partHashes[i].sha256 = Digest("sha256", hasher.contentParts[i])
         /\ hasher.hashes.fullContentHash.sha256
                = Digest("sha256", JoinParts(hasher.contentParts))
    /\ (hasher.on /\ hasher.stage = "verified") =>
         /\ ~hasher.result.threw
         /\ hasher.result.valid
         /\ hasher.result.fullHashValid
         /\ Len(hasher.result.partVerifications) = Len(hasher.contentParts)
         /\ \A i \in 1..Len(hasher.result.partVerifications) :
              hasher.result.partVerifications[i].valid

\* Three parts, an empty one among them, were hashed without the secondary
\* digest and verified.
C25_Witness ==
    /\ hasher.on
    /\ hasher.stage = "verified"
    /\ ~hasher.env.blake2b
    /\ hasher.contentParts = <<<<"x">>, <<>>, <<"y", "x">>>>
    /\ hasher.hashes.partHashes[1].blake2b = NullDigest

\* The searches that are under way and were not cancelled.
Outstanding(s) == {id \in Open(s) : id \notin s.aborted}

\* C26: a call of fetchHiveAPIWithFailover made while a search is active and
\* not cancelled is rejected: it starts no fetch and leaves activeSearchId,
\* currentSearchController and every other request as they are; and at most
\* one search that was not cancelled is under way at any time.
C26_ConcurrentSearchRejected ==
    /\ [][(/\ search.on
           /\ search'.currentSearchId = search.currentSearchId + 1
           /\ search.activeSearchId # NoSearch
           /\ search.activeSearchId \notin search.aborted) =>
            /\ search'.req[search'.currentSearchId].status = "rejected"
            /\ search'.activeSearchId = search.activeSearchId
            /\ search'.currentSearchController = search.currentSearchController
            /\ search'.aborted = search.aborted
            /\ \A id \in 1..MaxSearches :
                 id # search'.currentSearchId => search'.req[id] = search.req[id]]_vars
    /\ [](search.on => Cardinality(Outstanding(search)) <= 1)

\* The second call was rejected while the first search waits for a node.
C26_Witness ==
    /\ search.on
    /\ search.req[1].status = "fetch"
    /\ 1 \notin search.aborted
    /\ search.req[2].status = "rejected"
    /\ search.activeSearchId = 1

\* C27: when a request that is not the active one ends, its cleanup leaves
\* activeSearchId and currentSearchController as they are; so a search that
\* is under way and was not cancelled is the active one, its controller is
\* the one cancelCurrentSearch aborts, and a further call is rejected.
C27_CleanupChecksIdentity ==
    /\ [][search.on =>
            \A id \in 1..MaxSearches :
                (/\ search.req[id].status \in Running
                 /\ search'.req[id].status \notin Running
                 /\ search.activeSearchId # id) =>
                    /\ search'.activeSearchId = search.activeSearchId
                    /\ search'.currentSearchController = search.currentSearchController]_vars
    /\ [](search.on =>
            \A id \in Outstanding(search) :
                /\ search.activeSearchId = id
                /\ search.currentSearchController = id
                /\ busy(search)
                /\ id \in cancelCurrentSearch(search).aborted)

\* The first search was cancelled and ended after the second had become
\* active; the second is still under way and a third call was rejected.
C27_Witness ==
    /\ search.on
    /\ search.req[1].status = "cancelled"
    /\ search.req[2].status \in Running
    /\ search.req[3].status = "rejected"
    /\ search.activeSearchId = 2
    /\ search.currentSearchController = 2
    /\ 2 \notin search.aborted

\* Request id starts a fetch in this step.
Contacts(id) ==
    /\ search'.req[id].status = "fetch"
    /\ \/ search.req[id].status # "fetch"
       \/ search'.req[id].nodeIndex # search.req[id].nodeIndex
       \/ search'.req[id].retry # search.req[id].retry

\* C28: the nodes are tried in list order; a node gets at most maxRetries+1
\* attempts; a wait comes only after a failed attempt that has a retry left
\* on the same node; a usable result ends the call without another fetch;
\* the call fails only after the last attempt on the last node, so after at
\* most (number of nodes) x (maxRetries+1) attempts.
C28_FailoverOrder ==
    /\ [][search.on =>
            \A id \in 1..MaxSearches :
                /\ Contacts(id) =>
                     \/ /\ search.req[id].status = "none"
                        /\ search'.req[id].nodeIndex = 1
                        /\ search'.req[id].retry = 0
                     \/ /\ search.req[id].status = "backoff"
                        /\ search'.req[id].nodeIndex = search.req[id].nodeIndex
                        /\ search'.req[id].retry = search.req[id].retry + 1
                     \/ /\ search.req[id].status \in {"fetch", "json"}
                        /\ search.req[id].retry = search.req[id].maxRetries
                        /\ search'.req[id].nodeIndex = search.req[id].nodeIndex + 1
                        /\ search'.req[id].retry = 0
                /\ (search'.req[id].status = "backoff" /\ search.req[id].status # "backoff") =>
                     /\ search.req[id].status \in {"fetch", "json"}
                     /\ search.req[id].retry < search.req[id].maxRetries
                     /\ search'.req[id].nodeIndex = search.req[id].nodeIndex
                     /\ search'.req[id].retry = search.req[id].retry
                /\ (search'.req[id].status = "ok" /\ search.req[id].status # "ok") =>
                     /\ search.req[id].status = "json"
                     /\ \A other \in 1..MaxSearches : ~Contacts(other)
                /\ (search'.req[id].status = "failed" /\ search.req[id].status # "failed") =>
                     /\ search.req[id].nodeIndex = Len(HIVE_API_NODES)
                     /\ search.req[id].retry = search.req[id].maxRetries]_vars
    /\ [](search.on =>
            \A id \in Open(search) :
                /\ search.req[id].nodeIndex \in 1..Len(HIVE_API_NODES)
                /\ search.req[id].retry \in 0..search.req[id].maxRetries
                /\ (search.req[id].nodeIndex - 1) * (search.req[id].maxRetries + 1)
                       + search.req[id].retry + 1
                     <= Len(HIVE_API_NODES) * (search.req[id].maxRetries + 1))

\* The last attempt of a search with two retries: the third on the ninth
\* node, the 27th in all.
C28_Witness ==
    /\ search.on
    /\ search.req[1] = [status |-> "fetch", nodeIndex |-> Len(HIVE_API_NODES),
                        retry |-> 2, maxRetries |-> 2]

\* The retention period, in days, of a persisted state by its status.
RetentionDays(status) ==
    CASE status \in {"in_progress", "paused"} -> 14
      [] status = "completed" -> 7
      [] status = "failed" -> 30

\* C29: a cleanup run, routine or emergency, deletes an incomplete state
\* exactly when it is older than 14 days, a completed one when older than 7
\* days and a failed one when older than 30 days.
C29_RetentionPolicy ==
    (store.on /\ store.ran # "none") =>
        \A id \in 1..MaxStates :
            store.record[id].status \in {"in_progress", "paused", "completed", "failed"} =>
                (id \notin store.kept
                    <=> store.record[id].age
                            > RetentionDays(store.record[id].status) * HoursPerDay)

\* The delays of RETRY_CONFIG as the retry policy states them: 1 s, 3 s, 9 s.
RetrySchedule == <<1000, 3000, 9000>>

\* C30: within one start() run the transport is invoked at most 3 times for
\* one part; the k-th failed transient attempt of a part is followed by the
\* k-th delay of (1 s, 3 s, 9 s) before attempt k+1; the attempt counter of
\* a part stays within 0..3 and is cleared when the part is posted; a
\* start() call gives the part at the pointer a fresh allowance: the count
\* of the run starts again and its first attempt is attempt 1.  A posted
\* part that the pointer has left keeps counter 0.
C30_RetryPolicy ==
    /\ [](\A i \in 1..total_parts :
            /\ runCalls[i] <= 3
            /\ attempts[i] \in 0..3
            /\ Len(runDelays[i]) <= 3
            /\ \A k \in 1..Len(runDelays[i]) : runDelays[i][k] = RetrySchedule[k]
            /\ runCalls[i] <= Len(runDelays[i]) + 1
            /\ (parts[i].status = "posted" /\ i # currentPart) => attempts[i] = 0)
    /\ [][ /\ Len(ledger') > Len(ledger)
                   => /\ parts'[ledger'[Len(ledger')]].status = "posted"
                      /\ attempts'[ledger'[Len(ledger')]] = 0
           /\ (pc = "backoff" /\ pc' = "transport")
                   => /\ lastError \in TransientShaped
                      /\ runDelays'[currentPart]
                             = Append(runDelays[currentPart], RetrySchedule[attempt])
                      /\ lastCall' = [partNumber |-> currentPart,
                                      attempt |-> attempt + 1]
           /\ runs' # runs
                   => /\ \A i \in 1..total_parts :
                            /\ runCalls'[i] <= 1
                            /\ runDelays'[i] = <<>>
                      /\ pc' = "transport"
                            => lastCall' = [partNumber |-> currentPart',
                                            attempt |-> 1] ]_vars

\* The second run of a series whose first run was paused on part 2 after
\* three transient failures: part 2 has again had three attempts, after the
\* delays of 1 s and 3 s, and the third is in flight.
C30_Witness ==
    /\ runs = 2
    /\ runStartErrors = 3
    /\ \A e \in 1..3 : errors[e].partNumber = 2 /\ errors[e].error \in TransientShaped
    /\ pc = "transport"
    /\ lastCall = [partNumber |-> 2, attempt |-> 3]
    /\ runCalls[2] = 3
    /\ runDelays[2] = <<1000, 3000>>
    /\ attempts[1] = 0
    /\ parts[1].status = "posted"

\* The locators the ledger has given to publishes of part 1.
RootLocators == {i \in 1..Len(ledger) : ledger[i] = 1}

C35_BodyIsContentPlusManifest ==
    payload # NoPayload =>
        payload[1].body = bodyWithManifest(PartContent(lastCall.partNumber),
                                           compactManifestForPost)

\* C32: restoring from the snapshot the pipeline persisted reproduces the
\* pointer, the attempt counters, the cancelled and paused flags, the error
\* log, the root locator and the manifest of the snapshot, and the start()
\* that follows goes on at that pointer: its first transport call is for
\* the part at the pointer, which it has not moved.
C32_RestoreReproducesSnapshot ==
    [][ /\ Restore =>
              /\ currentPart' = ls[1].currentPart
              /\ attempts' = ls[1].attempts
              /\ cancelled' = ls[1].cancelled
              /\ paused' = ls[1].paused
              /\ errors' = ls[1].errors
              /\ rootPermlink' = ls[1].rootPermlink
              /\ parts' = ls[1].manifest.parts
              /\ root_permlink' = ls[1].manifest.root_permlink
              /\ ls' = ls
        /\ (runs' # runs /\ pc' = "transport") =>
              /\ currentPart' = currentPart
              /\ lastCall' = [partNumber |-> currentPart, attempt |-> 1]
              /\ parts' = parts
              /\ errors' = errors ]_vars

\* The page was reloaded after a run that was paused on part 2 by three
\* transient failures: the rebuilt instance has the pointer, the counters,
\* the flag, the error log and the root locator of that run.
C32_Witness ==
    /\ total_parts = 3
    /\ pc = "idle"
    /\ ~returned
    /\ runs = 1
    /\ runPhases = {}
    /\ paused
    /\ currentPart = 2
    /\ attempts[2] = 3
    /\ Len(errors) = 3
    /\ rootPermlink = 1
    /\ parts[1].status = "posted"
    /\ ls # <<>>

\* C33: resume() on a paused pipeline, paused by pause() during a run or by
\* the retry ceiling, makes it go on posting from the preserved pointer, and
\* the persisted status is in_progress only while a run drives the
\* pipeline.  A pipeline paused by pause() during a run is waiting at a
\* suspension point of that run; one paused by the retry ceiling has just
\* returned from start() after the paused notification.  With no run of
\* start() active no timer or promise of the pipeline is pending, so the
\* transport is invoked again only if a run is active after the resume()
\* call.
C33_ResumeContinues ==
    [][ ( /\ ops' # ops /\ paused /\ ~paused'
          /\ pc # "idle" \/ (returned /\ <<"paused", currentPart>> \in runPhases) ) =>
            /\ currentPart' = currentPart
            /\ pc' # "idle"
            /\ ls' # <<>>
            /\ ls'[1].status = "in_progress" => pc' # "idle" ]_vars

\* C36: over any sequence of start(), pause(), resume(), cancel() and
\* restores from the persisted snapshot, a part the transport has published
\* is never submitted to the transport again, also after a cancel() during
\* the cooldown that follows the part or after the last part succeeded.
C36_NoRepublish ==
    \A n \in inFlight : \A i \in 1..Len(ledger) : ledger[i] # n

\* C37: once the pipeline has reported success and cleared its persisted
\* state, no snapshot of the series exists in any later state: pause(),
\* resume() and cancel() on the finished instance do not write one, and the
\* IndexedDB save requested just before completion does not land after the
\* delete.
C37_NoSnapshotAfterSuccess ==
    result.success =>
        /\ ls = <<>>
        /\ idbQueue = <<>> => idbState = <<>>

\* C34: a search cancelled through cancelCurrentSearch before it returned
\* ends with the cancellation error and never delivers a result, wherever
\* in an attempt the cancel lands: a call whose controller was aborted
\* while it was suspended does not go on to another attempt and does not
\* end with a result or with the all-nodes-failed error.
C34_CancelledNeverDelivers ==
    [][ \A id \in 1..MaxSearches :
          ( /\ search.on
            /\ search.req[id].status \in Running
            /\ id \in search.aborted
            /\ search'.req[id] # search.req[id] )
          => search'.req[id].status = "cancelled" ]_vars

Occurrences(k, list) == Cardinality({j \in 1..Len(list) : list[j] = k})

\* C39: when verifyCompletedParts has ended, every part number of the
\* manifest is in exactly one of the lists verified, failed and missing,
\* once, and the lists are returned: for every fetch outcome and also when
\* the progress callback throws.
C39_EveryPartInOneList ==
    ( /\ verifier.on
      /\ verifier.rejected \/ verifier.i > Len(verifier.parts) )
    => /\ ~verifier.rejected
       /\ \A k \in 1..Len(verifier.parts) :
            Occurrences(k, verifier.verified) + Occurrences(k, verifier.failed)
                + Occurrences(k, verifier.missing) = 1

\* C40: every persisted pipeline state whose status is not completed
\* (in_progress, paused, failed or cancelled) is returned by
\* getAllIncompletePipelines.
C40_IncompleteStatesFound ==
    \A j \in 1..Len(idbState) :
        idbState[j].status # "completed"
        => \E k \in 1..Len(getAllIncompletePipelines(idbState)) :
              getAllIncompletePipelines(idbState)[k] = idbState[j]

====
